---- MODULE Spec2Model ----
(***************************************************************************)
(* A model of prime-flow-ai (package flow_bot).                            *)
(*                                                                         *)
(*   UniverseSpec : one call of universe.resolve_universe, for every       *)
(*                  configuration and provider response of the bounded     *)
(*                  domains below.                                         *)
(*   Spec         : FlowClient.stream_live_flow, the live polling loop     *)
(*                  around FlowClient._poll_massive_option_chain.          *)
(*   ScoreSpec    : pairs of calls of scoring.score_signal.                *)
(*   ConfigSpec   : calls of config.get_ticker_config.                     *)
(*   SwingSpec    : calls of SwingAccumulationStrategy.evaluate on one     *)
(*                  accumulator.                                           *)
(*   StrategySpec : one call of DayTrendStrategy.evaluate or of            *)
(*                  ScalpMomentumStrategy.evaluate.                        *)
(*   EngineSpec   : calls of SignalEngine.process_event.                   *)
(*   DirectSpec   : one call of one strategy's evaluate on the context     *)
(*                  ContextEngine computes for the event.                  *)
(*   PaperSpec    : calls of PaperTradingEngine.open_position_for_signal   *)
(*                  and update_positions on one engine.                    *)
(***************************************************************************)
EXTENDS Integers, Sequences, FiniteSets, TLC

\* ------------------------------------------------------------------ bounds

\* universe.max_tickers of the configuration ranges over -MaxCap..MaxCap and
\* the max_tickers argument over 1..MaxCap.
MaxCap == 3
\* Longest configured universe.fallback list.
MaxFallbackLen == 2
\* Most ticker items in one equity-snapshot response.
MaxFetchLen == 2
\* Most contract records in one option-chain snapshot.
MaxContracts == 2
\* The cycle counter of the polling loop stops counting here (the loop goes
\* on).
MaxCycles == 2
\* The seen-set capacity of the specification (about 2000 entries), scaled
\* to the identities of the model.
SeenCapacity == 2

\* --------------------------------------------------------- Python helpers

Min(a, b) == IF a <= b THEN a ELSE b
Max(a, b) == IF a >= b THEN a ELSE b

Range(s) == {s[i] : i \in DOMAIN s}

\* str.upper() on the symbols of the model.
Upper(s) ==
    CASE s = "spy"  -> "SPY"
      [] s = "qqq"  -> "QQQ"
      [] s = "iwm"  -> "IWM"
      [] s = "tsla" -> "TSLA"
      [] s = "gme"  -> "GME"
      [] OTHER      -> s

\* [t.upper() for t in seq]
UpperAll(seq) == [i \in DOMAIN seq |-> Upper(seq[i])]

\* Python's seq[:n]: the first n elements, and for a negative n all but the
\* last -n.
SliceTo(seq, n) ==
    IF n >= 0 THEN SubSeq(seq, 1, Min(n, Len(seq)))
              ELSE SubSeq(seq, 1, Max(0, Len(seq) + n))

\* ------------------------------------------------------------ universe.py

DEFAULT_FALLBACK ==
    << "SPY", "QQQ", "IWM", "DIA", "AAPL", "MSFT", "NVDA", "META",
       "GOOGL", "AMZN", "AMD", "TSLA", "AVGO", "NFLX", "SMH" >>

\* A mutant of _unique that keeps every element.
_unique_keeps_duplicates(seq) == seq

RECURSIVE _unique_from(_, _, _)
_unique_from(seq, seen, ordered) ==
    IF seq = << >> THEN ordered
    ELSE IF Head(seq) \in seen
         THEN _unique_from(Tail(seq), seen, ordered)
         ELSE _unique_from(Tail(seq), seen \cup {Head(seq)},
                           Append(ordered, Head(seq)))

_unique(seq) == _unique_from(seq, {}, << >>)

\* Python's `a or b` on numbers: 0 (and an absent value, modelled as 0) is
\* falsy.
OrNum(a, b) == IF a # 0 THEN a ELSE b

\* (dollar_volume, share_volume) of one equity-snapshot item.
_dollar_volume(result) ==
    LET vol   == result.day_volume
        price == OrNum(result.day_close,
                 OrNum(result.day_prev_close,
                 OrNum(result.lastTrade_p,
                 OrNum(result.lastQuote_p, 0))))
    IN  << vol * price, vol >>

\* tuple comparison a >= b on (dollar_volume, share_volume) keys
KeyGeq(a, b) == a[1] > b[1] \/ (a[1] = b[1] /\ a[2] >= b[2])

\* list.sort(key=..., reverse=True) is stable: an element goes after every
\* element whose key is at least its own.
RECURSIVE InsertDesc(_, _)
InsertDesc(sorted, x) ==
    IF sorted = << >> THEN << x >>
    ELSE IF KeyGeq(Head(sorted).key, x.key)
         THEN << Head(sorted) >> \o InsertDesc(Tail(sorted), x)
         ELSE << x >> \o sorted

RECURSIVE SortDesc(_, _)
SortDesc(scored, acc) ==
    IF scored = << >> THEN acc
    ELSE SortDesc(Tail(scored), InsertDesc(acc, Head(scored)))

\* The scored list of _try_fetch_top_volume: items without a ticker are
\* dropped, the others carry their upper-cased ticker and their sort key.
RECURSIVE Scored(_)
Scored(results) ==
    IF results = << >> THEN << >>
    ELSE LET item   == Head(results)
             ticker == Upper(item.ticker)
         IN  IF ticker = ""
             THEN Scored(Tail(results))
             ELSE << [ticker |-> ticker, key |-> _dollar_volume(item)] >>
                  \o Scored(Tail(results))

\* One call of _try_fetch_top_volume against the provider's `response`:
\* raise_for_status / a timeout / resp.json() raise, otherwise the top
\* max_tickers symbols by (dollar volume, share volume).
_try_fetch_top_volume(max_tickers, response) ==
    IF response.status # "ok"
    THEN [raised |-> TRUE, value |-> << >>]
    ELSE LET sorted == SortDesc(Scored(response.tickers), << >>)
             top    == SliceTo(sorted, max_tickers)
         IN  [raised |-> FALSE,
              value  |-> [i \in DOMAIN top |-> top[i].ticker]]

\* universe.max_tickers of the configuration wins over the argument when it
\* is truthy and int() accepts it.
max_tickers_cfg(cfg, max_tickers) ==
    IF cfg.universe_max_tickers.kind = "int" /\ cfg.universe_max_tickers.n # 0
    THEN cfg.universe_max_tickers.n
    ELSE max_tickers

fallback_from_cfg(cfg) ==
    IF cfg.universe_fallback # << >> THEN cfg.universe_fallback
    ELSE cfg.tickers_fallback_universe

\* A mutant of DynamicTier without the except clause: the fetch's exception
\* reaches the caller.
DynamicTierUncaught(cfg, cap, response) ==
    IF ~cfg.api_key
    THEN [raised |-> FALSE, dynamic |-> << >>, fetch_calls |-> 0]
    ELSE LET got == _try_fetch_top_volume(cap, response)
         IN  [raised      |-> got.raised,
              dynamic     |-> IF got.raised THEN << >>
                              ELSE _unique(UpperAll(got.value)),
              fetch_calls |-> 1]

\* Tier 1 of resolve_universe: with an API key, the dynamic fetch inside
\* try/except Exception; without one, nothing is fetched.
DynamicTier(cfg, cap, response) ==
    IF ~cfg.api_key
    THEN [raised |-> FALSE, dynamic |-> << >>, fetch_calls |-> 0]
    ELSE LET got == _try_fetch_top_volume(cap, response)
         IN  [raised      |-> FALSE,
              dynamic     |-> IF got.raised THEN << >>
                              ELSE _unique(UpperAll(got.value)),
              fetch_calls |-> 1]

\* The tiers after the dynamic one.
StaticTiers(cfg, cap, fetch_calls) ==
    IF fallback_from_cfg(cfg) # << >>
    THEN LET deduped == _unique(UpperAll(fallback_from_cfg(cfg)))
         IN  [raised |-> FALSE, tier |-> "fallback", candidates |-> deduped,
              universe |-> SliceTo(deduped, cap), fetch_calls |-> fetch_calls]
    ELSE [raised |-> FALSE, tier |-> "builtin",
          candidates |-> DEFAULT_FALLBACK,
          universe |-> SliceTo(DEFAULT_FALLBACK, cap),
          fetch_calls |-> fetch_calls]

\* A mutant of resolve_universe with an override tier in front: non-empty
\* tickers.overrides are returned and no other tier is consulted.
resolve_universe_overrides_first(cfg, max_tickers, response) ==
    LET cap == max_tickers_cfg(cfg, max_tickers)
        t1  == DynamicTier(cfg, cap, response)
    IN  IF cfg.tickers_overrides # << >>
        THEN LET deduped == _unique(UpperAll(cfg.tickers_overrides))
             IN  [raised |-> FALSE, tier |-> "overrides",
                  candidates |-> deduped,
                  universe |-> SliceTo(deduped, cap), fetch_calls |-> 0]
        ELSE IF t1.dynamic # << >>
        THEN [raised |-> FALSE, tier |-> "dynamic", candidates |-> t1.dynamic,
              universe |-> SliceTo(t1.dynamic, cap),
              fetch_calls |-> t1.fetch_calls]
        ELSE StaticTiers(cfg, cap, t1.fetch_calls)

\* resolve_universe(cfg, max_tickers=...) against the provider's `response`.
\* The result records the returned list, the tier whose return statement
\* produced it, that tier's list before the cap, the number of calls of
\* _try_fetch_top_volume, and whether an exception left the function.
resolve_universe(cfg, max_tickers, response) ==
    LET cap == max_tickers_cfg(cfg, max_tickers)
        t1  == DynamicTier(cfg, cap, response)
    IN  IF t1.raised
        THEN [raised |-> TRUE, tier |-> "none", candidates |-> << >>,
              universe |-> << >>, fetch_calls |-> t1.fetch_calls]
        ELSE IF t1.dynamic # << >>
        THEN [raised |-> FALSE, tier |-> "dynamic", candidates |-> t1.dynamic,
              universe |-> SliceTo(t1.dynamic, cap),
              fetch_calls |-> t1.fetch_calls]
        ELSE StaticTiers(cfg, cap, t1.fetch_calls)

\* -------------------------------------------------------------- models.py

\* The fields of the FlowEvent dataclass without a default value.
FlowEventRequired ==
    { "ticker", "call_put", "side", "action", "strike", "expiry",
      "option_price", "contracts", "notional", "volume", "open_interest",
      "underlying_price", "trade_time", "event_time" }

\* The fields of the FlowEvent dataclass with a default value.
FlowEventOptional ==
    { "exchange", "is_sweep", "is_block", "is_aggressive", "is_multi_leg",
      "iv", "delta", "bid", "ask", "raw" }

\* The generated FlowEvent.__init__ called with keyword arguments: a missing
\* required field or an unknown keyword raises TypeError.
FlowEvent(kwargs) ==
    IF /\ FlowEventRequired \subseteq DOMAIN kwargs
       /\ DOMAIN kwargs \subseteq (FlowEventRequired \cup FlowEventOptional)
    THEN [raised |-> FALSE, event |-> kwargs]
    ELSE [raised |-> TRUE, event |-> kwargs]

\* ----------------------------------------------------------- flow_client.py

\* int(universe_cfg.get("max_tickers") or 500)
DefaultMaxTickers == 500

\* float(ts_ns) / 1e9
NsPerSecond == 1000000000

\* float(x) on the strike strings of the model: ValueError on a string that
\* is no number.
ParseFloat(s) ==
    CASE s = "150" -> [ok |-> TRUE, value |-> 150]
      [] s = "95"  -> [ok |-> TRUE, value |-> 95]
      [] OTHER     -> [ok |-> FALSE, value |-> 0]

\* f"{underlying}:{option_ticker}:{ts_ns}"; the underlying holds no colon and
\* the timestamp only digits, so the string determines the three parts.
UniqueId(underlying, option_ticker, ts_ns) ==
    << underlying, option_ticker, ts_ns >>

\* The keyword arguments _poll_massive_option_chain builds for FlowEvent, or
\* raised when a numeric field does not parse.
NormalizeContract(underlying, contract) ==
    LET strike == ParseFloat(contract.strike_price)
        option_price == contract.price
        contracts == contract.size
    IN  IF ~strike.ok
        THEN [raised |-> TRUE, kwargs |-> [ticker |-> underlying]]
        ELSE [raised |-> FALSE,
              kwargs |->
                [ticker           |-> underlying,
                 side             |-> Upper(contract.contract_type),
                 action           |-> "BUY",
                 strike           |-> strike.value,
                 expiry           |-> contract.expiration_date,
                 option_price     |-> option_price,
                 contracts        |-> contracts,
                 notional         |-> option_price * contracts * 100,
                 is_sweep         |-> FALSE,
                 is_aggressive    |-> FALSE,
                 volume           |-> contract.day_volume,
                 open_interest    |-> contract.open_interest,
                 iv               |-> contract.implied_volatility,
                 underlying_price |-> contract.underlying_price,
                 event_time       |-> contract.sip_timestamp \div NsPerSecond,
                 raw              |-> contract]]

\* A mutant of PollContract that adds the identity to the seen-set after
\* the normalization: a record that raises leaves no key behind.
PollContractAddAfterNormalize(underlying, contract, seen) ==
    IF ~contract.has_last_trade
    THEN [kind |-> "no_trade", seen |-> seen, escaped |-> FALSE,
          event |-> << >>]
    ELSE IF contract.option_ticker = "" \/ contract.sip_timestamp = 0
    THEN [kind |-> "no_id", seen |-> seen, escaped |-> FALSE, event |-> << >>]
    ELSE LET unique_id == UniqueId(underlying, contract.option_ticker,
                                   contract.sip_timestamp)
             norm == NormalizeContract(underlying, contract)
             made == FlowEvent(norm.kwargs)
         IN  IF unique_id \in seen
             THEN [kind |-> "duplicate", seen |-> seen, escaped |-> FALSE,
                   event |-> << >>]
             ELSE IF norm.raised \/ made.raised
             THEN [kind |-> "error", seen |-> seen, escaped |-> FALSE,
                   event |-> << >>]
             ELSE [kind |-> "yield", seen |-> seen \cup {unique_id},
                   escaped |-> FALSE, event |-> << made.event >>]

\* A mutant of PollContract whose inner try has no except clause: an
\* exception of the normalization leaves the generator.
PollContractNoExcept(underlying, contract, seen) ==
    IF ~contract.has_last_trade
    THEN [kind |-> "no_trade", seen |-> seen, escaped |-> FALSE,
          event |-> << >>]
    ELSE IF contract.option_ticker = "" \/ contract.sip_timestamp = 0
    THEN [kind |-> "no_id", seen |-> seen, escaped |-> FALSE, event |-> << >>]
    ELSE LET unique_id == UniqueId(underlying, contract.option_ticker,
                                   contract.sip_timestamp)
             norm == NormalizeContract(underlying, contract)
             made == FlowEvent(norm.kwargs)
         IN  IF unique_id \in seen
             THEN [kind |-> "duplicate", seen |-> seen, escaped |-> FALSE,
                   event |-> << >>]
             ELSE IF norm.raised \/ made.raised
             THEN [kind |-> "error", seen |-> seen \cup {unique_id},
                   escaped |-> TRUE, event |-> << >>]
             ELSE [kind |-> "yield", seen |-> seen \cup {unique_id},
                   escaped |-> FALSE, event |-> << made.event >>]

\* The body of the contract loop of _poll_massive_option_chain for one
\* contract: what happened, the seen-set afterwards, the event yielded (a
\* sequence of length 0 or 1), and whether an exception left the generator.
PollContract(underlying, contract, seen) ==
    IF ~contract.has_last_trade
    THEN [kind |-> "no_trade", seen |-> seen, escaped |-> FALSE,
          event |-> << >>]
    ELSE IF contract.option_ticker = "" \/ contract.sip_timestamp = 0
    THEN [kind |-> "no_id", seen |-> seen, escaped |-> FALSE, event |-> << >>]
    ELSE LET unique_id == UniqueId(underlying, contract.option_ticker,
                                   contract.sip_timestamp)
             norm == NormalizeContract(underlying, contract)
             made == FlowEvent(norm.kwargs)
         IN  IF unique_id \in seen
             THEN [kind |-> "duplicate", seen |-> seen, escaped |-> FALSE,
                   event |-> << >>]
             ELSE IF norm.raised \/ made.raised
             THEN [kind |-> "error", seen |-> seen \cup {unique_id},
                   escaped |-> FALSE, event |-> << >>]
             ELSE [kind |-> "yield", seen |-> seen \cup {unique_id},
                   escaped |-> FALSE, event |-> << made.event >>]

\* ------------------------------------------------------------------ state

VARIABLES
    pc,           \* where the modelled call stands
    cfg,          \* the loaded configuration
    max_tickers,  \* resolve_universe's max_tickers argument (UniverseSpec)
    response,     \* the provider's equity-snapshot response of this call
    ret,          \* what resolve_universe returned (UniverseSpec)
    use_stub,     \* FlowClient.use_stub
    universe,     \* stream_live_flow's universe
    seen_ids,     \* stream_live_flow's seen_ids
    idx,          \* position of the poll's ticker loop in universe (from 1)
    results,      \* the contracts of the current snapshot not yet iterated
    emitted,      \* the FlowEvents the stream has yielded, in order
    cycle,        \* polling cycles started, counted up to MaxCycles
    log,          \* per universe position, what this cycle did for it
    abort,        \* the exception, if any, that left the poll in this cycle
    first_good,   \* identities first observed on a well-formed record
    gcfg,         \* the configuration the strategies and get_ticker_config read
    call,         \* the latest call of the signal pipeline: inputs and result
    chain_totals, \* SwingAccumulationStrategy.chain_totals
    processed,    \* the strategy and engine calls made so far, oldest first
    scored,       \* the latest two calls of score_signal, oldest first
    positions,    \* PaperTradingEngine.positions: id -> PaperPosition
    closed        \* the PaperPositions update_positions has returned, by id

vars == << pc, cfg, max_tickers, response, ret, use_stub, universe, seen_ids,
           idx, results, emitted, cycle, log, abort, first_good,
           gcfg, call, chain_totals, processed, scored, positions, closed >>

liveVars == << use_stub, universe, seen_ids, idx, results, emitted, cycle,
               log, abort, first_good >>

streamVars == << pc, cfg, max_tickers, response, ret >>

engineVars == << gcfg, call, chain_totals, processed, scored >>

paperVars == << positions, closed >>

\* A dict without keys.
EmptyDict == [k \in {} |-> 0]

NoCall == [op |-> "none"]

\* No SignalEngine exists and nothing was scored.
EngineIdle ==
    /\ gcfg = EmptyDict
    /\ call = NoCall
    /\ chain_totals = EmptyDict
    /\ processed = << >>
    /\ scored = << >>

\* No PaperTradingEngine holds a position.
PaperIdle ==
    /\ positions = EmptyDict
    /\ closed = EmptyDict

\* ----------------------------------------------------------------- domains

SeqsUpTo(S, n) == UNION {[1..k -> S] : k \in 0..n}

Unset   == [kind |-> "unset", n |-> 0]
Invalid == [kind |-> "invalid", n |-> 0]
IntValue(k) == [kind |-> "int", n |-> k]

\* universe.max_tickers: absent, a string int() rejects, or an integer.
MaxTickersValues == {Unset, Invalid} \cup {IntValue(k) : k \in -MaxCap..MaxCap}

FallbackSymbols == {"spy", "SPY", "QQQ"}

UniverseConfigs ==
    [api_key                   : BOOLEAN,
     flow_use_stub             : {FALSE},
     universe_max_tickers      : MaxTickersValues,
     universe_fallback         : SeqsUpTo(FallbackSymbols, MaxFallbackLen),
     tickers_fallback_universe : {<< >>, << "iwm" >>},
     tickers_overrides         : {<< >>, << "tsla", "GME", "TSLA" >>}]

SnapshotItem(t, vol, close, prev, trade) ==
    [ticker |-> t, day_volume |-> vol, day_close |-> close,
     day_prev_close |-> prev, lastTrade_p |-> trade, lastQuote_p |-> 0]

SnapshotItems ==
    { SnapshotItem("spy", 2, 3, 0, 0),
      SnapshotItem("QQQ", 5, 0, 2, 0),
      SnapshotItem("SPY", 1, 0, 0, 4),
      SnapshotItem("", 9, 9, 0, 0) }

FetchFailures == {[status |-> s, tickers |-> << >>] :
                    s \in {"http_error", "exception"}}

FetchResponses ==
    FetchFailures
    \cup {[status |-> "ok", tickers |-> t] :
            t \in SeqsUpTo(SnapshotItems, MaxFetchLen)}

NoReturn == [raised |-> FALSE, tier |-> "none", candidates |-> << >>,
             universe |-> << >>, fetch_calls |-> 0]

NoResponse == [status |-> "none", tickers |-> << >>]

\* ------------------------------------------------------------ UniverseSpec

LiveIdle ==
    /\ use_stub = FALSE
    /\ universe = << >>
    /\ seen_ids = {}
    /\ idx = 1
    /\ results = << >>
    /\ emitted = << >>
    /\ cycle = 0
    /\ log = << >>
    /\ abort = "none"
    /\ first_good = {}

UniverseInit ==
    /\ pc = "call"
    /\ cfg \in UniverseConfigs
    /\ max_tickers \in 1..MaxCap
    /\ response = NoResponse
    /\ ret = NoReturn
    /\ LiveIdle
    /\ EngineIdle
    /\ PaperIdle

\* One call resolve_universe(cfg, max_tickers=max_tickers); the provider
\* answers the equity-snapshot request, if one is made, with any response.
ResolveUniverse ==
    /\ pc = "call"
    /\ \E r \in (IF cfg.api_key THEN FetchResponses ELSE {NoResponse}) :
         /\ response' = r
         /\ ret' = resolve_universe(cfg, max_tickers, r)
    /\ pc' = IF ret'.raised THEN "raised" ELSE "returned"
    /\ UNCHANGED << cfg, max_tickers >>
    /\ UNCHANGED liveVars
    /\ UNCHANGED << engineVars, paperVars >>

UniverseNext == ResolveUniverse

UniverseSpec == UniverseInit /\ [][UniverseNext]_vars

\* --------------------------------------------------- Spec: the live stream

LiveConfig(key, stub, cap, fallback, overrides) ==
    [api_key                   |-> key,
     flow_use_stub             |-> stub,
     universe_max_tickers      |-> IntValue(cap),
     universe_fallback         |-> fallback,
     tickers_fallback_universe |-> << >>,
     tickers_overrides         |-> overrides]

\* The configurations of the live stream: with a key and a cap of two
\* tickers, of one, and a negative cap (which empties the universe); the
\* stub switched on; and no key.
LiveConfigs ==
    { LiveConfig(TRUE, FALSE, 2, << "QQQ", "spy" >>, << >>),
      LiveConfig(TRUE, FALSE, 1, << "QQQ", "spy" >>, << >>),
      LiveConfig(TRUE, FALSE, -1, << "spy" >>, << >>),
      LiveConfig(TRUE, TRUE, 2, << "QQQ", "spy" >>,
                 << "tsla", "GME", "TSLA" >>),
      LiveConfig(FALSE, FALSE, 2, << "QQQ", "spy" >>, << >>) }

\* What the equity-snapshot request of the live stream's resolve_universe
\* call may return.
LiveFetchResponses ==
    { [status |-> "http_error", tickers |-> << >>],
      [status |-> "ok", tickers |-> << >>],
      [status |-> "ok",
       tickers |-> << SnapshotItem("spy", 2, 3, 0, 0),
                      SnapshotItem("QQQ", 1, 0, 2, 0) >>] }

Contract(has_trade, option_ticker, ts_ns, strike) ==
    [has_last_trade     |-> has_trade,
     option_ticker      |-> option_ticker,
     sip_timestamp      |-> ts_ns,
     contract_type      |-> "call",
     strike_price       |-> strike,
     expiration_date    |-> "2026-01-16",
     price              |-> 2,
     size               |-> 10,
     day_volume         |-> 40,
     open_interest      |-> 7,
     implied_volatility |-> 1,
     underlying_price   |-> 149]

\* The contract records a snapshot may hold: without a last trade, without
\* an option ticker, a well-formed trade, the same trade with a non-numeric
\* strike_price, and a later trade with a non-numeric strike_price.
Contracts ==
    { Contract(FALSE, "O:A", NsPerSecond, "150"),
      Contract(TRUE, "", NsPerSecond, "150"),
      Contract(TRUE, "O:A", NsPerSecond, "150"),
      Contract(TRUE, "O:A", NsPerSecond, "abc"),
      Contract(TRUE, "O:A", 2 * NsPerSecond, "abc") }

\* get_option_chain_snapshot: raise_for_status raises HTTPError, the request
\* or resp.json() raises something else, or a payload with results.
SnapshotOutcomes ==
    { [status |-> s, results |-> << >>] : s \in {"http_error", "exception"} }
    \cup { [status |-> "ok", results |-> c] :
             c \in SeqsUpTo(Contracts, MaxContracts) }

\* A contract with a last trade, an option ticker, a trade timestamp and
\* numeric fields that parse.
WellFormed(contract) ==
    /\ contract.has_last_trade
    /\ contract.option_ticker # ""
    /\ contract.sip_timestamp # 0
    /\ ParseFloat(contract.strike_price).ok

ContractId(underlying, contract) ==
    UniqueId(underlying, contract.option_ticker, contract.sip_timestamp)

\* The identity of a yielded FlowEvent.
EventId(event) == ContractId(event.ticker, event.raw)

\* Per universe position and cycle: the snapshot requests made, the outcome
\* of the last one, the contracts skipped on an exception and the events
\* yielded.
EmptyLog == [requests |-> 0, outcome |-> "none", errors |-> 0, yielded |-> 0]

FreshLog(u) == [i \in DOMAIN u |-> EmptyLog]

\* int(universe_cfg.get("max_tickers") or 500) in stream_live_flow.
LiveMaxTickers(c) ==
    IF c.universe_max_tickers.kind = "int" /\ c.universe_max_tickers.n # 0
    THEN c.universe_max_tickers.n
    ELSE DefaultMaxTickers

\* FlowClient(cfg): without a provider key the client falls back to the stub.
Init ==
    /\ pc = "created"
    /\ cfg \in LiveConfigs
    /\ use_stub = (cfg.flow_use_stub \/ ~cfg.api_key)
    /\ max_tickers = 0
    /\ response = NoResponse
    /\ ret = NoReturn
    /\ universe = << >>
    /\ seen_ids = {}
    /\ idx = 1
    /\ results = << >>
    /\ emitted = << >>
    /\ cycle = 0
    /\ log = << >>
    /\ abort = "none"
    /\ first_good = {}
    /\ EngineIdle
    /\ PaperIdle

\* stream_live_flow up to its while loop: the stub generator when use_stub or
\* no key, otherwise the universe is resolved and the first cycle starts.
StartStream ==
    /\ pc = "created"
    /\ IF use_stub \/ ~cfg.api_key
       THEN /\ pc' = "stub"
            /\ UNCHANGED << universe, log, cycle >>
       ELSE \E r \in LiveFetchResponses :
              LET got == resolve_universe(cfg, LiveMaxTickers(cfg), r)
              IN  /\ universe' = got.universe
                  /\ log' = FreshLog(got.universe)
                  /\ pc' = IF got.raised THEN "raised" ELSE "poll"
                  /\ cycle' = 1
    /\ idx' = 1
    /\ seen_ids' = {}
    /\ UNCHANGED << cfg, max_tickers, response, ret, use_stub, results,
                    emitted, abort, first_good >>
    /\ UNCHANGED << engineVars, paperVars >>

\* The keyword arguments of the FlowEvent of _stream_stub_flows for the
\* ticker at 0-based position i (prices in cents).
StubKwargs(ticker, i) ==
    [ticker           |-> ticker,
     side             |-> IF i % 2 = 0 THEN "CALL" ELSE "PUT",
     action           |-> "BUY",
     strike           |-> 100 + 5 * i,
     expiry           |-> 7 + 3 * i,
     option_price     |-> 125 + 25 * i,
     contracts        |-> 100 + i * 50,
     notional         |-> (100 + i * 50) * (125 + 25 * i),
     is_sweep         |-> TRUE,
     is_aggressive    |-> TRUE,
     volume           |-> 5000 + i * 1000,
     open_interest    |-> 2000 + i * 500,
     iv               |-> 35 + 2 * i,
     underlying_price |-> 100 + 5 * i - 1,
     event_time       |-> i,
     raw              |-> [source |-> "stub_live"]]

\* One iteration of _stream_stub_flows, or its end: the generator yields the
\* FlowEvent it builds, ends after at most three tickers, and an exception
\* of the constructor leaves stream_live_flow.
StreamStub ==
    /\ pc = "stub"
    /\ LET sample_tickers ==
               IF cfg.tickers_overrides # << >> THEN cfg.tickers_overrides
               ELSE << "SPY", "QQQ", "TSLA" >>
           n == Min(3, Len(sample_tickers))
       IN  IF idx > n
           THEN pc' = "returned" /\ UNCHANGED << idx, emitted >>
           ELSE LET made == FlowEvent(StubKwargs(sample_tickers[idx], idx - 1))
                IN  IF made.raised
                    THEN pc' = "raised" /\ UNCHANGED << idx, emitted >>
                    ELSE /\ emitted' = Append(emitted, made.event)
                         /\ idx' = idx + 1
                         /\ pc' = "stub"
    /\ UNCHANGED << cfg, max_tickers, response, ret, use_stub, universe,
                    seen_ids, results, cycle, log, abort, first_good >>
    /\ UNCHANGED << engineVars, paperVars >>

\* A mutant of OnSnapshotError: the failed request ends the ticker loop.
OnSnapshotErrorBreak(i, n) == n + 1

\* Both except clauses around get_option_chain_snapshot `continue`: the
\* ticker loop, at position i of n, goes on with the next ticker.
OnSnapshotError(i, n) == i + 1

\* A mutant of OnPollException: the exception leaves stream_live_flow.
OnPollExceptionReraise == "raised"

\* stream_live_flow's `except Exception` around the poll logs and falls
\* through to time.sleep.
OnPollException == "sleep"

\* The request of one ticker's option-chain snapshot and its outcome.
RequestSnapshot ==
    /\ pc = "poll"
    /\ idx <= Len(universe)
    /\ \E outcome \in SnapshotOutcomes :
         /\ log' = [log EXCEPT ![idx] =
                      [@ EXCEPT !.requests = Min(@ + 1, 2),
                                !.outcome = outcome.status]]
         /\ IF outcome.status # "ok"
            THEN /\ idx' = OnSnapshotError(idx, Len(universe))
                 /\ results' = << >>
                 /\ pc' = "poll"
            ELSE /\ results' = outcome.results
                 /\ idx' = IF outcome.results = << >> THEN idx + 1 ELSE idx
                 /\ pc' = IF outcome.results = << >> THEN "poll"
                          ELSE "contracts"
    /\ UNCHANGED << cfg, max_tickers, response, ret, use_stub, universe,
                    seen_ids, emitted, cycle, abort, first_good >>
    /\ UNCHANGED << engineVars, paperVars >>

\* One iteration of the contract loop of _poll_massive_option_chain.
ProcessContract ==
    /\ pc = "contracts"
    /\ results # << >>
    /\ LET underlying == universe[idx]
           contract == Head(results)
           r == PollContract(underlying, contract, seen_ids)
           last == Tail(results) = << >>
       IN  /\ seen_ids' = r.seen
           /\ first_good' =
                IF r.kind \in {"error", "yield"} /\ WellFormed(contract)
                THEN first_good \cup {ContractId(underlying, contract)}
                ELSE first_good
           /\ IF r.escaped
              THEN /\ abort' = "contract"
                   /\ pc' = OnPollException
                   /\ results' = << >>
                   /\ UNCHANGED << idx, emitted, log >>
              ELSE /\ emitted' = emitted \o r.event
                   /\ results' = Tail(results)
                   /\ log' = [log EXCEPT ![idx] =
                                [@ EXCEPT !.errors = IF r.kind = "error"
                                                     THEN @ + 1 ELSE @,
                                          !.yielded = @ + Len(r.event)]]
                   /\ idx' = IF last THEN idx + 1 ELSE idx
                   /\ pc' = IF last THEN "poll" ELSE "contracts"
                   /\ abort' = abort
    /\ UNCHANGED << cfg, max_tickers, response, ret, use_stub, universe,
                    cycle >>
    /\ UNCHANGED << engineVars, paperVars >>

\* The ticker loop is exhausted: the generator ends and the stream goes to
\* time.sleep.
EndPoll ==
    /\ pc = "poll"
    /\ idx > Len(universe)
    /\ pc' = "sleep"
    /\ UNCHANGED << cfg, max_tickers, response, ret, use_stub, universe,
                    seen_ids, idx, results, emitted, cycle, log, abort,
                    first_good >>
    /\ UNCHANGED << engineVars, paperVars >>

\* An exception other than those the poll handles itself (a MemoryError,
\* say) leaves the generator in the middle of a cycle.
PollRaises ==
    /\ pc \in {"poll", "contracts"}
    /\ abort' = "other"
    /\ pc' = OnPollException
    /\ results' = << >>
    /\ UNCHANGED << cfg, max_tickers, response, ret, use_stub, universe,
                    seen_ids, idx, emitted, cycle, log, first_good >>
    /\ UNCHANGED << engineVars, paperVars >>

\* time.sleep(poll_interval) returns and the while loop starts the next
\* cycle with a fresh generator over the same universe and seen_ids.
Sleep ==
    /\ pc = "sleep"
    /\ pc' = "poll"
    /\ idx' = 1
    /\ results' = << >>
    /\ log' = FreshLog(universe)
    /\ abort' = "none"
    /\ cycle' = Min(cycle + 1, MaxCycles)
    /\ UNCHANGED << cfg, max_tickers, response, ret, use_stub, universe,
                    seen_ids, emitted, first_good >>
    /\ UNCHANGED << engineVars, paperVars >>

Next ==
    \/ StartStream
    \/ StreamStub
    \/ RequestSnapshot
    \/ ProcessContract
    \/ EndPoll
    \/ PollRaises
    \/ Sleep

Spec == Init /\ [][Next]_vars

\* The interpreter keeps running the single thread of the stream: a step
\* that can be taken is taken.
FairSpec == Spec /\ WF_vars(Next)

\* ------------------------------------------------- claims: UniverseSpec

NoDuplicates(seq) ==
    \A i, j \in DOMAIN seq : i # j => seq[i] # seq[j]

UpperSet(seq) == {Upper(seq[i]) : i \in DOMAIN seq}

\* The cap resolve_universe applies: universe.max_tickers of the
\* configuration when it is a non-zero integer, else the argument.
EffectiveCap ==
    IF cfg.universe_max_tickers.kind = "int" /\ cfg.universe_max_tickers.n # 0
    THEN cfg.universe_max_tickers.n
    ELSE max_tickers

C5_NeverEmpty ==
    (pc = "returned" /\ max_tickers >= 1) => ret.universe # << >>

\* C6: a failure of the dynamic fetch never reaches the caller of
\* resolve_universe; it counts as an empty dynamic result, after which the
\* configured static fallback is returned when it is non-empty and the
\* built-in list only when it is empty; a later tier is used only when every
\* earlier tier yielded nothing.
C6_FetchFailureFallsBack ==
    /\ pc # "raised"
    /\ ~ret.raised
    /\ pc = "returned" =>
         LET fallback == IF cfg.universe_fallback # << >>
                         THEN cfg.universe_fallback
                         ELSE cfg.tickers_fallback_universe
             dynamic_empty ==
                 \/ ~cfg.api_key
                 \/ response.status # "ok"
                 \/ _try_fetch_top_volume(EffectiveCap, response).value = << >>
         IN  /\ (cfg.api_key /\ response.status # "ok") =>
                  /\ ret.tier # "dynamic"
                  /\ fallback # << >> =>
                       /\ ret.tier = "fallback"
                       /\ Range(ret.candidates) = UpperSet(fallback)
                       /\ ret.universe = SliceTo(ret.candidates, EffectiveCap)
                  /\ fallback = << >> =>
                       /\ ret.tier = "builtin"
                       /\ ret.universe = SliceTo(DEFAULT_FALLBACK, EffectiveCap)
             /\ ret.tier = "dynamic" => ~dynamic_empty
             /\ ret.tier = "fallback" => dynamic_empty /\ fallback # << >>
             /\ ret.tier = "builtin" => dynamic_empty /\ fallback = << >>

\* The fetch failed and the configured static fallback was returned.
C6_Witness ==
    /\ pc = "returned"
    /\ cfg.api_key
    /\ response.status = "http_error"
    /\ ret.tier = "fallback"
    /\ ret.universe # << >>

\* C7 as stated: the returned list holds no duplicate symbol and is no
\* longer than the max_tickers argument of the call.
C7_UniqueAndCappedByArgument ==
    pc = "returned" =>
        /\ NoDuplicates(ret.universe)
        /\ Len(ret.universe) <= max_tickers

\* C7 as amended: the returned list holds no duplicate symbol and is the
\* chosen tier's list cut by [:cap], where cap is universe.max_tickers of the
\* configuration when that is a non-zero integer and the max_tickers argument
\* otherwise: at most cap symbols for a cap >= 0, and for a negative cap the
\* list without its last -cap symbols.
C7_UniqueAndCappedByEffectiveCap ==
    pc = "returned" =>
        /\ NoDuplicates(ret.universe)
        /\ EffectiveCap >= 0 => Len(ret.universe) <= EffectiveCap
        /\ EffectiveCap < 0 =>
             Len(ret.universe) = Max(0, Len(ret.candidates) + EffectiveCap)
        /\ \A i \in DOMAIN ret.universe : ret.universe[i] = ret.candidates[i]

\* A configured cap above the argument: a fallback with a repeated symbol is
\* de-duplicated and two symbols are returned for max_tickers = 1.
C7_Witness ==
    /\ pc = "returned"
    /\ max_tickers = 1
    /\ ret.tier = "fallback"
    /\ cfg.universe_fallback = << "spy", "SPY" >>
    /\ cfg.tickers_fallback_universe = << >>
    /\ ret.universe = << "SPY" >>
    /\ EffectiveCap = 2

\* --------------------------------------------------------- claims: Spec

\* The number of yielded FlowEvents of a trade identity.
EmittedFor(events, id) ==
    Cardinality({i \in DOMAIN events : EventId(events[i]) = id})

Failed(outcome) == outcome \in {"http_error", "exception"}

\* The stream polls the provider: a key is configured and the stub is off.
Polling == cfg.api_key /\ ~use_stub

\* C2 as stated: when a well-formed contract record is fed to the poll again
\* (its identity was first observed on that well-formed record, in this
\* snapshot, this cycle or an earlier one), exactly one FlowEvent of that
\* identity has been emitted.
C2_SameRecordTwiceOneEvent ==
    [][ ( /\ pc = "contracts"
          /\ results # << >>
          /\ WellFormed(Head(results))
          /\ ContractId(universe[idx], Head(results)) \in first_good )
        => EmittedFor(emitted', ContractId(universe[idx], Head(results))) = 1
      ]_vars

\* C3 as stated: a contract record with a last trade, an option ticker, a
\* trade timestamp and well-formed numeric fields whose identity is not in
\* the seen-set is normalized into a FlowEvent and emitted by the step of the
\* poll that first observes it.
C3_FirstObservationEmits ==
    [][ ( /\ pc = "contracts"
          /\ results # << >>
          /\ WellFormed(Head(results))
          /\ ContractId(universe[idx], Head(results)) \notin seen_ids
          /\ abort' = "none" )
        => /\ Len(emitted') = Len(emitted) + 1
           /\ EventId(emitted'[Len(emitted')])
                = ContractId(universe[idx], Head(results))
      ]_vars

\* C4 as stated: the seen-set is bounded; at the end of a polling cycle it
\* never holds more than the capacity.
C4_SeenSetBounded ==
    pc = "sleep" => Cardinality(seen_ids) <= SeenCapacity

\* C8: when the snapshot request of a ticker fails, no event is emitted for
\* that ticker in that cycle, the request is not repeated within the cycle
\* (no position is requested more than once), and the later tickers are
\* still polled: the ticker loop leaves no position behind it unrequested,
\* and a cycle that no exception aborted has requested every position.
C8_FailedRequestSkipsTicker ==
    pc \in {"poll", "contracts", "sleep"} =>
        /\ \A i \in DOMAIN log :
             /\ log[i].requests <= 1
             /\ Failed(log[i].outcome) =>
                  log[i].yielded = 0 /\ log[i].errors = 0
             /\ i < idx => log[i].requests = 1
        /\ (pc = "sleep" /\ abort = "none") =>
             \A i \in DOMAIN universe : log[i].requests = 1

\* The request of the first ticker failed and the second ticker was polled
\* in the same cycle.
C8_Witness ==
    /\ pc = "sleep"
    /\ abort = "none"
    /\ Len(universe) = 2
    /\ log[1].outcome = "http_error"
    /\ log[1].requests = 1
    /\ log[2].outcome = "ok"
    /\ log[2].requests = 1
    /\ log[2].errors = 1

\* C9: an exception raised while normalizing a contract record never leaves
\* the poll; the record is skipped and the contract loop goes on with the
\* next record of the snapshot or, after the last one, with the next ticker.
C9_MalformedRecordSkipped ==
    /\ [](abort # "contract")
    /\ [][ ( /\ pc = "contracts"
             /\ abort' = "none"
             /\ log'[idx].errors = log[idx].errors + 1 )
           => /\ results' = Tail(results)
              /\ emitted' = emitted
              /\ IF results' = << >>
                 THEN pc' = "poll" /\ idx' = idx + 1
                 ELSE pc' = "contracts" /\ idx' = idx
         ]_vars

\* Both records of the first ticker's snapshot raised and were skipped, and
\* the second ticker's snapshot was processed in the same cycle.
C9_Witness ==
    /\ pc = "sleep"
    /\ abort = "none"
    /\ Len(universe) = 2
    /\ log[1].errors = 2
    /\ log[2].outcome = "ok"
    /\ log[2].errors >= 1

\* C10: with a provider key (and the stub off) the polling loop never
\* terminates: no exception leaves stream_live_flow and the generator never
\* returns, every cycle, also one whose requests all failed or whose poll
\* raised, reaches the sleep, and every sleep is followed by a new cycle.
C10_LoopNeverTerminates ==
    /\ [](Polling => pc \in {"created", "poll", "contracts", "sleep"})
    /\ [][pc = "sleep" => (pc' = "poll" /\ idx' = 1)]_vars
    /\ (Polling /\ pc \in {"poll", "contracts"}) ~> (pc = "sleep")
    /\ (Polling /\ pc = "sleep") ~> (pc = "poll" /\ idx = 1)

\* A second cycle starts after a cycle in which every request failed.
C10_Witness ==
    /\ Polling
    /\ pc = "sleep"
    /\ cycle >= 2
    /\ Len(universe) = 2
    /\ \A i \in DOMAIN log : Failed(log[i].outcome)

\* ------------------------------------------------------- main_live.py

\* main()'s `for event in client.stream_live_flow()` is over: the generator
\* returned, or it raised and the `except Exception` around the loop logged
\* "Fatal error in live loop"; either way main() returns.
MainLoopExited == pc \in {"raised", "returned"}

\* C11 as stated: without a provider API key the live process keeps running
\* in degraded mode: the live event stream does not end and the main live
\* loop does not exit.
C11_DegradedModeKeepsRunning ==
    ~cfg.api_key => ~MainLoopExited

\* ------------------------------------------------------------ dict helpers

\* d.get(k, default)
Get(d, k, default) == IF k \in DOMAIN d THEN d[k] ELSE default

\* {**a, **b}, and a.update(b) on a copy of a
Merge(a, b) ==
    [k \in DOMAIN a \cup DOMAIN b |-> IF k \in DOMAIN b THEN b[k] ELSE a[k]]

\* The stream and resolve_universe take no part in the specifications of the
\* signal pipeline.
StreamIdle ==
    /\ pc = "idle"
    /\ cfg = LiveConfig(FALSE, FALSE, 2, << "QQQ", "spy" >>, << >>)
    /\ max_tickers = 0
    /\ response = NoResponse
    /\ ret = NoReturn
    /\ LiveIdle

\* A FlowEvent on SPY at 100, observed on day 0; expiry is a day number, so
\* (event.expiry - event.event_time.date()).days is expiry - event_time.
FlowEventOf(call_put, side, strike, expiry, notional, sweep, aggressive, vol, oi) ==
    [ticker           |-> "SPY",
     call_put         |-> call_put,
     side             |-> side,
     action           |-> "BUY",
     strike           |-> strike,
     expiry           |-> expiry,
     option_price     |-> 1,
     contracts        |-> 1,
     notional         |-> notional,
     volume           |-> vol,
     open_interest    |-> oi,
     underlying_price |-> 100,
     trade_time       |-> 0,
     event_time       |-> 0,
     is_sweep         |-> sweep,
     is_aggressive    |-> aggressive,
     raw              |-> EmptyDict]

\* -------------------------------------------------------------- scoring.py

\* The rubric of score_signal in the order of its if statements: whether the
\* predicate fires, its weight, its tag and its rule.
ScoreRubric(event, context, mode_cfg) ==
    LET min_notional ==
            IF "min_notional" \in DOMAIN mode_cfg
            THEN mode_cfg["min_notional"]
            ELSE Get(mode_cfg, "min_premium", 0)
    IN  << [fires |-> event.notional >= min_notional, weight |-> 2,
            tag |-> "SIZE", rule |-> "notional>=min_notional"],
           [fires |-> event.notional >= min_notional, weight |-> 2,
            tag |-> "SIZE_OK", rule |-> "size_ok"],
           [fires |-> event.is_sweep, weight |-> 2,
            tag |-> "SWEEP", rule |-> "is_sweep"],
           [fires |-> event.is_aggressive, weight |-> 2,
            tag |-> "AGGRESSIVE", rule |-> "is_aggressive"],
           [fires |-> event.volume >= 2 * Max(event.open_interest, 1),
            weight |-> 2, tag |-> "VOL>OI", rule |-> "volume>=2x_oi"],
           [fires |-> Get(context, "trend_aligned", FALSE) = TRUE,
            weight |-> 2, tag |-> "TREND_CONFIRMED", rule |-> "trend_aligned"],
           [fires |-> Get(context, "breaking_level", FALSE) = TRUE,
            weight |-> 1, tag |-> "LEVEL_BREAK", rule |-> "breaking_level"] >>

\* The if statements of score_signal, one after the other.
RECURSIVE ApplyRubric(_, _)
ApplyRubric(rubric, acc) ==
    IF rubric = << >> THEN acc
    ELSE LET h == Head(rubric)
         IN  ApplyRubric(Tail(rubric),
                 IF h.fires
                 THEN [score |-> acc.score + h.weight,
                       tags  |-> Append(acc.tags, h.tag),
                       rules |-> Append(acc.rules, h.rule)]
                 ELSE acc)

\* A mutant of score_signal without the final min(score, 10.0).
score_signal_unclamped(event, context, mode_cfg) ==
    LET acc == ApplyRubric(ScoreRubric(event, context, mode_cfg),
                           [score |-> 0, tags |-> << >>, rules |-> << >>])
    IN  [strength |-> acc.score, tags |-> acc.tags, rules |-> acc.rules]

\* score_signal(event, context, mode_cfg) -> (strength, tags, rules)
score_signal(event, context, mode_cfg) ==
    LET acc == ApplyRubric(ScoreRubric(event, context, mode_cfg),
                           [score |-> 0, tags |-> << >>, rules |-> << >>])
    IN  [strength |-> Min(acc.score, 10), tags |-> acc.tags,
         rules |-> acc.rules]

\* Inputs of score_signal: volume/open-interest pairs around the 2 x
\* max(open_interest, 1) threshold, a context flag absent, false or true, and
\* mode blocks with min_notional, with min_premium, with both and with
\* neither.
ScoreEvents ==
    { FlowEventOf("CALL", "BUY", 101, 3, notional, is_sweep, is_aggressive,
                  vo[1], vo[2]) :
        notional \in {0, 400}, is_sweep \in BOOLEAN, is_aggressive \in BOOLEAN,
        vo \in { << 1, 0 >>, << 2, 0 >>, << 3, 2 >> } }

ScoreContexts ==
    { [breaking_level |-> b] : b \in BOOLEAN }
    \cup { [trend_aligned |-> t, breaking_level |-> b] :
             t \in BOOLEAN, b \in BOOLEAN }

ScoreModeConfigs ==
    { EmptyDict,
      [min_notional |-> 300],
      [min_premium |-> 300],
      [min_notional |-> 300, min_premium |-> 500] }

\* One call of score_signal; the specification keeps a pair of calls.
ScoreSignal ==
    /\ Len(scored) < 2
    /\ \E e \in ScoreEvents, c \in ScoreContexts, m \in ScoreModeConfigs :
         scored' = Append(scored, [event |-> e, context |-> c, mode_cfg |-> m,
                                   result |-> score_signal(e, c, m)])
    /\ UNCHANGED << gcfg, call, chain_totals, processed >>
    /\ UNCHANGED streamVars
    /\ UNCHANGED << liveVars, paperVars >>

ScoreInit == StreamIdle /\ EngineIdle /\ PaperIdle

ScoreNext == ScoreSignal

ScoreSpec == ScoreInit /\ [][ScoreNext]_vars

\* The rubric of the specification: six predicates, the notional one counted
\* once.
RubricAsSpecified(event, context, mode_cfg) ==
    LET r == ScoreRubric(event, context, mode_cfg)
    IN  << r[1], r[3], r[4], r[5], r[6], r[7] >>

RECURSIVE WeightOf(_)
WeightOf(rubric) ==
    IF rubric = << >> THEN 0
    ELSE (IF Head(rubric).fires THEN Head(rubric).weight ELSE 0)
         + WeightOf(Tail(rubric))

Fired(rubric) == {i \in DOMAIN rubric : rubric[i].fires}

\* C12 as stated: score_signal returns strength = min(10, S), S the sum of
\* the weights of the satisfied predicates of the six-predicate rubric, each
\* counted once; each satisfied predicate appends exactly one tag and one
\* rule, the notional predicate the tag SIZE and the rule
\* notional>=min_notional.
C12_StrengthIsRubricSum ==
    \A i \in DOMAIN scored :
        LET c == scored[i]
            spec == RubricAsSpecified(c.event, c.context, c.mode_cfg)
        IN  /\ c.result.strength = Min(10, WeightOf(spec))
            /\ Len(c.result.tags) = Cardinality(Fired(spec))
            /\ Len(c.result.rules) = Cardinality(Fired(spec))
            /\ spec[1].fires =>
                 /\ c.result.tags[1] = "SIZE"
                 /\ c.result.rules[1] = "notional>=min_notional"

\* Every predicate the first call satisfies, the second satisfies too.
Subsumes(a, b) ==
    LET ra == ScoreRubric(a.event, a.context, a.mode_cfg)
        rb == ScoreRubric(b.event, b.context, b.mode_cfg)
    IN  \A i \in DOMAIN ra : ra[i].fires => rb[i].fires

\* C13: for two calls of score_signal such that every rubric predicate the
\* one satisfies is satisfied by the other too, the strength of the one is
\* at most the strength of the other; every strength is within [0, 10].
C13_MonotoneAndClamped ==
    /\ \A i \in DOMAIN scored :
         scored[i].result.strength >= 0 /\ scored[i].result.strength <= 10
    /\ \A i, j \in DOMAIN scored :
         Subsumes(scored[i], scored[j]) =>
             scored[i].result.strength <= scored[j].result.strength

\* A call with one predicate satisfied, then a call in which every predicate
\* fires and the raw sum is above 10.
C13_Witness ==
    /\ Len(scored) = 2
    /\ Subsumes(scored[1], scored[2])
    /\ scored[1].result.strength = 2
    /\ \A i \in 1..7 :
         ScoreRubric(scored[2].event, scored[2].context,
                     scored[2].mode_cfg)[i].fires
    /\ scored[2].result.strength = 10

\* --------------------------------------------------------------- config.py

\* The keys of a ticker override that name a mode block.
ModeNames == {"scalp", "day_trade", "swing"}

\* {k: v for k, v in d.items() if k in keys}
Restrict(d, keys) == [k \in keys \cap DOMAIN d |-> d[k]]

\* A mutant of get_ticker_config that applies tickers.default last.
get_ticker_config_default_last(global_cfg, ticker, mode) ==
    LET mode_cfg        == Get(global_cfg, mode, EmptyDict)
        tickers         == Get(global_cfg, "tickers", EmptyDict)
        ticker_default  == Get(tickers, "default", EmptyDict)
        ticker_override == Get(Get(tickers, "overrides", EmptyDict), ticker,
                               EmptyDict)
        top             == Restrict(ticker_override,
                                    DOMAIN ticker_override \ ModeNames)
        mode_override   == Get(ticker_override, mode, EmptyDict)
    IN  Merge(Merge(Merge(mode_cfg, top), mode_override), ticker_default)

\* get_ticker_config(global_cfg, ticker, mode) -> merged
get_ticker_config(global_cfg, ticker, mode) ==
    LET mode_cfg        == Get(global_cfg, mode, EmptyDict)
        tickers         == Get(global_cfg, "tickers", EmptyDict)
        ticker_default  == Get(tickers, "default", EmptyDict)
        ticker_override == Get(Get(tickers, "overrides", EmptyDict), ticker,
                               EmptyDict)
        merged          == Merge(mode_cfg, ticker_default)
        top             == Restrict(ticker_override,
                                    DOMAIN ticker_override \ ModeNames)
        mode_override   == Get(ticker_override, mode, EmptyDict)
    IN  Merge(Merge(merged, top), mode_override)

\* The setting keys of the configurations of ConfigSpec.
ConfigKeys == {"min_premium", "max_dte"}

\* A block that defines the given keys with values that tell the block
\* (base) and the key apart.
LevelDict(keys, base) ==
    [k \in keys |-> base + (IF k = "min_premium" THEN 1 ELSE 2)]

\* A global configuration: a swing block, a scalp block, no day_trade block,
\* tickers.default, and an override for SPY with top-level keys, a swing
\* block and a scalp block.
GlobalConfig(k1, k2, k3, k4) ==
    [swing   |-> LevelDict(k1, 10),
     scalp   |-> LevelDict(ConfigKeys, 50),
     tickers |-> [default   |-> LevelDict(k2, 20),
                  overrides |-> [SPY |-> Merge(LevelDict(k3, 30),
                                     [swing |-> LevelDict(k4, 40),
                                      scalp |-> LevelDict({"max_dte"}, 60)])]]]

GlobalConfigs ==
    { GlobalConfig(k1, k2, k3, k4) :
        k1 \in SUBSET ConfigKeys, k2 \in SUBSET ConfigKeys,
        k3 \in SUBSET ConfigKeys, k4 \in SUBSET ConfigKeys }
    \cup { [swing |-> LevelDict(k1, 10)] : k1 \in SUBSET ConfigKeys }

ConfigTickers == {"SPY", "QQQ"}

ConfigInit ==
    /\ StreamIdle
    /\ PaperIdle
    /\ gcfg \in GlobalConfigs
    /\ call = NoCall
    /\ chain_totals = EmptyDict
    /\ processed = << >>
    /\ scored = << >>

\* One call of get_ticker_config on the loaded configuration; no statement
\* of the function assigns into global_cfg or into a dict reached from it.
GetTickerConfig ==
    /\ \E ticker \in ConfigTickers, mode \in ModeNames :
         call' = [op |-> "get_ticker_config", global_cfg |-> gcfg,
                  ticker |-> ticker, mode |-> mode,
                  result |-> get_ticker_config(gcfg, ticker, mode)]
    /\ UNCHANGED << gcfg, chain_totals, processed, scored >>
    /\ UNCHANGED streamVars
    /\ UNCHANGED << liveVars, paperVars >>

ConfigNext == GetTickerConfig

ConfigSpec == ConfigInit /\ [][ConfigNext]_vars

\* The four sources of a merged setting, lowest priority first.
PriorityLevels(global_cfg, ticker, mode) ==
    LET tickers  == Get(global_cfg, "tickers", EmptyDict)
        override == Get(Get(tickers, "overrides", EmptyDict), ticker,
                        EmptyDict)
    IN  << Get(global_cfg, mode, EmptyDict),
           Get(tickers, "default", EmptyDict),
           [k \in DOMAIN override \ ModeNames |-> override[k]],
           Get(override, mode, EmptyDict) >>

\* C20: get_ticker_config returns, for every key, the value of the
\* highest-priority source that defines it (mode block < tickers.default <
\* non-mode keys of the ticker's override < the override's block for the
\* mode), has no other keys, and leaves the global configuration as it was.
C20_MergePrecedence ==
    call.op = "get_ticker_config" =>
        LET levels == PriorityLevels(call.global_cfg, call.ticker, call.mode)
            keys   == UNION { DOMAIN levels[i] : i \in 1..4 }
        IN  /\ DOMAIN call.result = keys
            /\ \A k \in keys :
                 LET top == CHOOSE i \in 1..4 :
                              /\ k \in DOMAIN levels[i]
                              /\ \A j \in 1..4 :
                                   k \in DOMAIN levels[j] => j <= i
                 IN  call.result[k] = levels[top][k]
            /\ gcfg = call.global_cfg

\* A call for SPY in swing mode where all four sources define min_premium
\* and only the lowest defines max_dte.
C20_Witness ==
    /\ call.op = "get_ticker_config"
    /\ call.ticker = "SPY"
    /\ call.mode = "swing"
    /\ LET levels == PriorityLevels(call.global_cfg, call.ticker, call.mode)
       IN  /\ \A i \in 1..4 : "min_premium" \in DOMAIN levels[i]
           /\ \A i \in 1..4 : "max_dte" \in DOMAIN levels[i] <=> i = 1
    /\ call.result = [min_premium |-> 41, max_dte |-> 12]

\* ------------------------------------------------------------- strategies

\* evaluate returned None.
None == [kind |-> "none"]

\* Optional[...] fields: None, or a value.
NoneOpt == << >>
Some(v) == << v >>

\* A mutant of SignalDefaults whose day horizon defaults to one day.
SignalDefaultsOneDay ==
    [time_horizon_min      |-> NoneOpt,
     time_horizon_max      |-> NoneOpt,
     time_horizon_days_min |-> Some(1),
     time_horizon_days_max |-> Some(1)]

\* The fields of Signal that have a default: every one is None.
SignalDefaults ==
    [time_horizon_min      |-> NoneOpt,
     time_horizon_max      |-> NoneOpt,
     time_horizon_days_min |-> NoneOpt,
     time_horizon_days_max |-> NoneOpt]

\* Python's `a or b` on strings: the empty string is falsy.
OrStr(a, b) == IF a # "" THEN a ELSE b

\* (event.expiry - event.event_time.date()).days
Dte(event) == event.expiry - event.event_time

\* abs(strike - underlying) / max(underlying, 1) * 100, in whole percent
\* (exact for the events of the model, whose underlying is 100).
OtmPct(event) ==
    LET d == event.strike - event.underlying_price
    IN  ((IF d < 0 THEN -d ELSE d) * 100) \div Max(event.underlying_price, 1)

\* (event.call_put or event.raw.get("call_put") or "CALL").upper()
CallPut(event) ==
    Upper(OrStr(event.call_put, OrStr(Get(event.raw, "call_put", ""), "CALL")))

\* (event.side or event.action or "BUY").upper()
OrderSide(event) == Upper(OrStr(event.side, OrStr(event.action, "BUY")))

\* The Signal a strategy builds, with the fields the claims read: `given`
\* holds the time-horizon keywords the strategy passes, the others keep
\* their default.
SignalOf(event, kind, style, direction, strength, tags, rules, given) ==
    Merge(Merge(SignalDefaults, given),
          [kind            |-> kind,
           ticker          |-> event.ticker,
           direction       |-> direction,
           style           |-> style,
           strength        |-> strength,
           tags            |-> tags,
           rules_triggered |-> rules,
           flow_events     |-> << event >>,
           created_at      |-> event.event_time])

\* list.append(x) when cond holds
AppendIf(seq, cond, x) == IF cond THEN Append(seq, x) ELSE seq

\* ------------------------------------- strategies/swing_accumulation.py

\* A mutant of SwingKey that leaves the strike out of the chain key.
SwingKeyWithoutStrike(event) ==
    << event.ticker, event.expiry,
       OrStr(event.call_put, OrStr(Get(event.raw, "call_put", ""), "CALL")) >>

\* key = (ticker, strike, expiry, call_put)
SwingKey(event) ==
    << event.ticker, event.strike, event.expiry,
       OrStr(event.call_put, OrStr(Get(event.raw, "call_put", ""), "CALL")) >>

\* A mutant of SwingAdmits without the DTE window.
SwingAdmitsAnyDte(event, mode_cfg) ==
    ~(event.notional < Get(mode_cfg, "min_premium", 0))

\* The gates in front of the accumulator: the DTE window and min_premium.
SwingAdmits(event, mode_cfg) ==
    /\ ~(Dte(event) < Get(mode_cfg, "min_dte", 0))
    /\ ~(Dte(event) > Get(mode_cfg, "max_dte", 1000000))
    /\ ~(event.notional < Get(mode_cfg, "min_premium", 0))

\* A mutant of Accumulate that keeps the latest notional only.
AccumulateLatestOnly(totals, key, notional) ==
    [k \in DOMAIN totals \cup {key} |->
        IF k = key THEN notional ELSE totals[k]]

\* self.chain_totals[key] = self.chain_totals.get(key, 0.0) + event.notional
Accumulate(totals, key, notional) ==
    [k \in DOMAIN totals \cup {key} |->
        IF k = key THEN Get(totals, key, 0) + notional ELSE totals[k]]

\* trend_aligned of the swing strategy: the daily trend with a CALL,
\* its inverse with a PUT.
SwingTrendAligned(event, context) ==
    LET trend_daily_up == Get(context, "trend_daily_up", FALSE) = TRUE
    IN  IF CallPut(event) = "CALL" THEN trend_daily_up ELSE ~trend_daily_up

\* SwingAccumulationStrategy.evaluate on an accumulator `totals`: the
\* accumulator after the call and the Signal or None.
SwingEvaluate(totals, event, context, global_cfg) ==
    LET mode_cfg == get_ticker_config(global_cfg, event.ticker, "swing")
        key      == SwingKey(event)
        after    == Accumulate(totals, key, event.notional)
        persistent_buyer ==
            after[key] >= Get(mode_cfg, "min_premium", 0) * 3
        trend_aligned == SwingTrendAligned(event, context)
        direction ==
            IF CallPut(event) = "CALL"
            THEN (IF OrderSide(event) # "SELL" THEN "BULLISH" ELSE "BEARISH")
            ELSE (IF OrderSide(event) # "SELL" THEN "BEARISH" ELSE "BULLISH")
        enriched == Merge(context, [trend_aligned |-> trend_aligned])
        s        == score_signal(event, enriched, mode_cfg)
        tags     == AppendIf(AppendIf(AppendIf(s.tags,
                        persistent_buyer, "PERSISTENT_BUYER"),
                        event.is_sweep, "SWEEP"),
                        event.is_aggressive, "AGGRESSIVE")
        rules    == Append(AppendIf(s.rules, persistent_buyer,
                                    "persistent_buyer"),
                           "swing_filters_passed")
        \* int(...) of settings that are whole numbers
        days_min == Get(mode_cfg, "time_horizon_days_min",
                        Get(mode_cfg, "min_dte", 2))
        days_max == Get(mode_cfg, "time_horizon_days_max",
                        Get(mode_cfg, "max_dte", Dte(event)))
    IN  IF ~SwingAdmits(event, mode_cfg)
        THEN [chain_totals |-> totals, signal |-> None]
        ELSE IF s.strength < Get(mode_cfg, "min_strength", 0)
        THEN [chain_totals |-> after, signal |-> None]
        ELSE [chain_totals |-> after,
              signal |-> SignalOf(event, "SWING", "swing", direction,
                            s.strength, tags, rules,
                            [time_horizon_days_min |-> Some(days_min),
                             time_horizon_days_max |-> Some(days_max)])]

\* Most strategy calls in one behaviour of SwingSpec.
MaxEvents == 3

\* Swing events: two strikes, a notional below and above 300, an expiry
\* inside and outside a 30-day window; CALL bought, no sweep, not aggressive.
SwingEvents ==
    { FlowEventOf("CALL", "BUY", strike, expiry, notional, FALSE, FALSE, 1, 0) :
        strike \in {101, 105}, expiry \in {3, 40}, notional \in {200, 400} }

SwingContexts ==
    { [trend_daily_up |-> t, breaking_level |-> FALSE] : t \in BOOLEAN }

\* Swing blocks: the minimum given as min_notional, given as min_premium,
\* given as min_premium with a DTE window and a minimum strength, and a
\* min_premium that two events reach three times.
SwingConfigs ==
    { [swing |-> [min_notional |-> 300]],
      [swing |-> [min_premium |-> 300]],
      [swing |-> [min_premium |-> 300, max_dte |-> 30, min_strength |-> 6]],
      [swing |-> [min_premium |-> 200]] }

\* A SignalEngine's SwingAccumulationStrategy, just constructed.
SwingInit ==
    /\ StreamIdle
    /\ PaperIdle
    /\ gcfg \in SwingConfigs
    /\ call = NoCall
    /\ chain_totals = EmptyDict
    /\ processed = << >>
    /\ scored = << >>

\* One call of SwingAccumulationStrategy.evaluate.
EvaluateSwing ==
    /\ Len(processed) < MaxEvents
    /\ \E event \in SwingEvents, context \in SwingContexts :
         LET r == SwingEvaluate(chain_totals, event, context, gcfg)
             c == [op |-> "swing", event |-> event, context |-> context,
                   signal |-> r.signal]
         IN  /\ chain_totals' = r.chain_totals
             /\ call' = c
             /\ processed' = Append(processed, c)
    /\ UNCHANGED << gcfg, scored >>
    /\ UNCHANGED streamVars
    /\ UNCHANGED << liveVars, paperVars >>

SwingNext == EvaluateSwing

SwingSpec == SwingInit /\ [][SwingNext]_vars

\* Two events are on one (ticker, strike, expiry, call_put) chain.
SameChain(a, b) ==
    /\ a.ticker = b.ticker
    /\ a.strike = b.strike
    /\ a.expiry = b.expiry
    /\ a.call_put = b.call_put

\* The notional of the events of history h, among the first j with an
\* index in kept, that are on the chain of h[i].
RECURSIVE ChainNotional(_, _, _, _)
ChainNotional(h, i, j, kept) ==
    IF j = 0 THEN 0
    ELSE (IF SameChain(h[j].event, h[i].event) /\ j \in kept
          THEN h[j].event.notional ELSE 0)
         + ChainNotional(h, i, j - 1, kept)

HasTag(signal, tag) == \E n \in DOMAIN signal.tags : signal.tags[n] = tag

\* C14 as stated: with the swing minimum m given as min_notional, a swing
\* signal carries PERSISTENT_BUYER exactly when the cumulative notional of
\* its chain, the current event included, is at least 3 x m; three events of
\* 400 on one chain with min_notional = 300 give absent, absent, present.
C14_PersistentBuyerAtThreeTimesMinNotional ==
    LET swing == Get(gcfg, "swing", EmptyDict)
    IN  "min_notional" \in DOMAIN swing =>
          \A i \in DOMAIN processed :
             processed[i].signal # None =>
               (HasTag(processed[i].signal, "PERSISTENT_BUYER")
                  <=> ChainNotional(processed, i, i, DOMAIN processed)
                        >= 3 * swing["min_notional"])

\* C15: a call of the swing strategy changes the accumulator entry of the
\* event's own (ticker, strike, expiry, call_put) chain only, and the
\* PERSISTENT_BUYER decision of a signal depends on the admitted events of
\* its own chain only: events on another strike do not contribute.
C15_OnlyOwnChainChanges ==
    [][(call'.op = "swing" /\ processed' # processed) =>
         LET e        == call'.event
             own      == << e.ticker, e.strike, e.expiry, e.call_put >>
             mode_cfg == Get(gcfg, "swing", EmptyDict)
             Admitted(x) ==
                 /\ x.expiry - x.event_time >= Get(mode_cfg, "min_dte", 0)
                 /\ x.expiry - x.event_time <= Get(mode_cfg, "max_dte", 1000000)
                 /\ x.notional >= Get(mode_cfg, "min_premium", 0)
         IN  /\ DOMAIN chain_totals \subseteq DOMAIN chain_totals'
             /\ \A k \in DOMAIN chain_totals' \ {own} :
                  k \in DOMAIN chain_totals
                  /\ chain_totals'[k] = chain_totals[k]
             /\ call'.signal # None =>
                  (HasTag(call'.signal, "PERSISTENT_BUYER")
                     <=> ChainNotional(processed', Len(processed'),
                                       Len(processed'),
                                       {j \in DOMAIN processed' :
                                          Admitted(processed'[j].event)})
                           >= 3 * Get(mode_cfg, "min_premium", 0))
      ]_vars

\* 800 accumulated on strike 101, then a signal on strike 105: the two
\* chains together pass 3 x 300, the signal's own chain does not, and the
\* signal has no PERSISTENT_BUYER tag.
C15_Witness ==
    /\ gcfg = [swing |-> [min_premium |-> 300]]
    /\ Len(processed) = 3
    /\ processed[1].event.strike = 101
    /\ processed[2].event.strike = 101
    /\ processed[3].event.strike = 105
    /\ \A i \in 1..3 : processed[i].event.expiry = 3
                       /\ processed[i].event.notional = 400
    /\ chain_totals[<< "SPY", 101, 3, "CALL" >>] = 800
    /\ chain_totals[<< "SPY", 105, 3, "CALL" >>] = 400
    /\ call.signal # None
    /\ ~HasTag(call.signal, "PERSISTENT_BUYER")

\* ------------------------------------------------ strategies/day_trend.py

\* The breaking-level flag of DayTrendStrategy.evaluate: the context's value
\* and, when the context has none, bool(is_aggressive or is_sweep).
DayBreakingLevel(event, context) ==
    IF "breaking_level" \in DOMAIN context
    THEN context["breaking_level"]
    ELSE event.is_aggressive \/ event.is_sweep

\* A mutant of DayAdmits with the DTE gate of the scalp strategy: only
\* events that expire today are admitted.
DayAdmitsNearDated(event, context, mode_cfg) ==
    /\ ~(Dte(event) > 0)
    /\ ~(event.notional < Get(mode_cfg, "min_notional", 0))
    /\ ~(OtmPct(event) > Get(mode_cfg, "max_otm_pct", 100))
    /\ ~("rvol" \in DOMAIN context
         /\ context["rvol"] < Get(mode_cfg, "min_rvol", 0))

\* The gates of DayTrendStrategy.evaluate in front of the breaking-level
\* gate: DTE, min_notional, OTM% and, when the context has an rvol, min_rvol.
DayAdmits(event, context, mode_cfg) ==
    /\ ~(Dte(event) > Get(mode_cfg, "max_dte", 10))
    /\ ~(event.notional < Get(mode_cfg, "min_notional", 0))
    /\ ~(OtmPct(event) > Get(mode_cfg, "max_otm_pct", 100))
    /\ ~("rvol" \in DOMAIN context
         /\ context["rvol"] < Get(mode_cfg, "min_rvol", 0))

\* trend_aligned of the day-trade strategy: the 15-minute trend with a
\* CALL, its inverse with a PUT.
DayTrendAligned(event, context) ==
    LET trend_15m_up == Get(context, "trend_15m_up", FALSE) = TRUE
    IN  IF CallPut(event) = "CALL" THEN trend_15m_up ELSE ~trend_15m_up

\* The Signal of DayTrendStrategy.evaluate once the gates in front of the
\* score are passed, or None when the strength is below min_strength.
DayScored(event, context, mode_cfg, breaking_level) ==
    LET trend_aligned == DayTrendAligned(event, context)
        direction ==
            IF CallPut(event) = "CALL"
            THEN (IF OrderSide(event) # "SELL" THEN "BULLISH" ELSE "BEARISH")
            ELSE (IF OrderSide(event) # "SELL" THEN "BEARISH" ELSE "BULLISH")
        enriched == Merge(context,
                        [trend_aligned |-> trend_aligned /\ breaking_level])
        s        == score_signal(event, enriched, mode_cfg)
        tags     == AppendIf(AppendIf(Append(s.tags, "BREAKOUT"),
                        event.is_sweep, "SWEEP"),
                        event.is_aggressive, "AGGRESSIVE")
        rules    == Append(AppendIf(s.rules, breaking_level, "breaking_level"),
                           "day_trade_filters_passed")
        \* int(...) of settings that are whole numbers
        time_min == Get(mode_cfg, "time_horizon_min", 30)
        time_max == Get(mode_cfg, "time_horizon_max", 180)
    IN  IF s.strength < Get(mode_cfg, "min_strength", 0)
        THEN None
        ELSE SignalOf(event, "DAY_TRADE", "day", direction, s.strength,
                      tags, rules,
                      [time_horizon_min |-> Some(time_min),
                       time_horizon_max |-> Some(time_max)])

\* A mutant of DayEvaluate without `if not breaking_level: return None`.
DayEvaluateWithoutLevelGate(event, context, global_cfg) ==
    LET mode_cfg == get_ticker_config(global_cfg, event.ticker, "day_trade")
    IN  IF ~DayAdmits(event, context, mode_cfg) THEN None
        ELSE DayScored(event, context, mode_cfg,
                       DayBreakingLevel(event, context))

\* DayTrendStrategy.evaluate: the Signal or None.
DayEvaluate(event, context, global_cfg) ==
    LET mode_cfg == get_ticker_config(global_cfg, event.ticker, "day_trade")
        breaking_level == DayBreakingLevel(event, context)
    IN  IF ~DayAdmits(event, context, mode_cfg) THEN None
        ELSE IF ~breaking_level THEN None
        ELSE DayScored(event, context, mode_cfg, breaking_level)

\* --------------------------------------------- strategies/scalp_momentum.py

\* The hard gates of ScalpMomentumStrategy.evaluate: DTE, min_premium, OTM%
\* and rvol (0 when the context has none).
ScalpAdmits(event, context, mode_cfg) ==
    /\ ~(Dte(event) > Get(mode_cfg, "max_dte", 0))
    /\ ~(event.notional < Get(mode_cfg, "min_premium", 0))
    /\ ~(OtmPct(event) > Get(mode_cfg, "max_otm_pct", 100))
    /\ ~(Get(context, "rvol", 0) < Get(mode_cfg, "min_rvol", 0))

\* trend_aligned of the scalp strategy: above VWAP and the 5-minute trend
\* up with a CALL, `above_vwap is False` and the trend not up with a PUT.
ScalpTrendAligned(event, context) ==
    LET vwap_known  == "above_vwap" \in DOMAIN context
        trend_5m_up == Get(context, "trend_5m_up", FALSE) = TRUE
    IN  IF CallPut(event) = "CALL"
        THEN (vwap_known /\ context["above_vwap"] = TRUE) /\ trend_5m_up
        ELSE (vwap_known /\ context["above_vwap"] = FALSE) /\ ~trend_5m_up

\* ScalpMomentumStrategy.evaluate: the Signal or None.
ScalpEvaluate(event, context, global_cfg) ==
    LET mode_cfg == get_ticker_config(global_cfg, event.ticker, "scalp")
        trend_aligned == ScalpTrendAligned(event, context)
        direction ==
            IF CallPut(event) = "CALL"
            THEN (IF OrderSide(event) # "SELL" THEN "BULLISH" ELSE "BEARISH")
            ELSE (IF OrderSide(event) # "SELL" THEN "BEARISH" ELSE "BULLISH")
        enriched == Merge(context, [trend_aligned |-> trend_aligned])
        s        == score_signal(event, enriched, mode_cfg)
        tags     == AppendIf(AppendIf(AppendIf(s.tags,
                        event.is_sweep, "SWEEP"),
                        event.is_aggressive, "AGGRESSIVE"),
                        event.volume >= 2 * Max(event.open_interest, 1),
                        "FRESH_MONEY")
        rules    == Append(s.rules, "scalp_filters_passed")
        \* int(...) of settings that are whole numbers
        time_min == Get(mode_cfg, "time_horizon_min", 5)
        time_max == Get(mode_cfg, "time_horizon_max", 30)
    IN  IF ~ScalpAdmits(event, context, mode_cfg) THEN None
        ELSE IF s.strength < Get(mode_cfg, "min_strength", 0) THEN None
        ELSE SignalOf(event, "SCALP", "scalp", direction, s.strength,
                      tags, rules,
                      [time_horizon_min |-> Some(time_min),
                       time_horizon_max |-> Some(time_max)])

\* ------------------------------------------- direct calls of the strategies

\* Events around every gate: expiry today, in 3 and in 400 days; strike 1%
\* and 10% from the underlying; notional below and above 10000; with and
\* without the sweep and aggressive flags; volume above and below 2 x OI.
StrategyEvents ==
    { FlowEventOf(call_put, "BUY", strike, expiry, notional, is_sweep,
                  is_aggressive, vo[1], vo[2]) :
        call_put \in {"CALL", "PUT"}, strike \in {101, 110},
        expiry \in {0, 3, 400}, notional \in {400, 50000},
        is_sweep \in BOOLEAN, is_aggressive \in BOOLEAN,
        vo \in { << 10000, 2000 >>, << 1, 2 >> } }

\* Contexts: breaking_level absent, false or true; rvol absent, 0.5 or 1.2
\* (in tenths); the trend and VWAP flags all up or all down.
StrategyContexts ==
    { Merge(Merge([above_vwap |-> up, trend_5m_up |-> up,
                   trend_15m_up |-> up, trend_daily_up |-> up], level), rvol) :
        up \in BOOLEAN,
        level \in { EmptyDict, [breaking_level |-> FALSE],
                    [breaking_level |-> TRUE] },
        rvol \in { EmptyDict, [rvol |-> 5], [rvol |-> 12] } }

\* Configurations: every threshold at its default; the day-trade block of the
\* specification's example with a scalp block whose minimum is given as
\* min_premium; and the same with the scalp minimum given as min_notional
\* and with time horizons of their own.
StrategyConfigs ==
    { EmptyDict,
      [day_trade |-> [min_notional |-> 10000, max_dte |-> 5,
                      max_otm_pct |-> 5, min_strength |-> 4,
                      min_rvol |-> 10],
       scalp     |-> [min_premium |-> 10000, max_dte |-> 0,
                      max_otm_pct |-> 5, min_rvol |-> 10]],
      [day_trade |-> [min_notional |-> 10000, max_dte |-> 5,
                      max_otm_pct |-> 5, min_strength |-> 4,
                      time_horizon_min |-> 15, time_horizon_max |-> 240],
       scalp     |-> [min_notional |-> 10000, max_dte |-> 0,
                      max_otm_pct |-> 5, min_rvol |-> 10,
                      time_horizon_max |-> 20]] }

StrategyInit ==
    /\ StreamIdle
    /\ PaperIdle
    /\ gcfg \in StrategyConfigs
    /\ call = NoCall
    /\ chain_totals = EmptyDict
    /\ processed = << >>
    /\ scored = << >>

\* One call of DayTrendStrategy.evaluate. The strategy has no state, so a
\* behaviour makes one call.
EvaluateDay ==
    /\ call = NoCall
    /\ \E event \in StrategyEvents, context \in StrategyContexts :
         call' = [op |-> "day_trend", event |-> event, context |-> context,
                  signal |-> DayEvaluate(event, context, gcfg)]
    /\ UNCHANGED << gcfg, chain_totals, processed, scored >>
    /\ UNCHANGED streamVars
    /\ UNCHANGED << liveVars, paperVars >>

\* One call of ScalpMomentumStrategy.evaluate. The strategy has no state, so
\* a behaviour makes one call.
EvaluateScalp ==
    /\ call = NoCall
    /\ \E event \in StrategyEvents, context \in StrategyContexts :
         call' = [op |-> "scalp_momentum", event |-> event,
                  context |-> context,
                  signal |-> ScalpEvaluate(event, context, gcfg)]
    /\ UNCHANGED << gcfg, chain_totals, processed, scored >>
    /\ UNCHANGED streamVars
    /\ UNCHANGED << liveVars, paperVars >>

StrategyNext == EvaluateDay \/ EvaluateScalp

StrategySpec == StrategyInit /\ [][StrategyNext]_vars

\* C16: DayTrendStrategy.evaluate returns None whenever the breaking-level
\* flag is false: the flag is the context's breaking_level when there is
\* one, and (is_aggressive or is_sweep) otherwise.
C16_NoSignalWithoutBreakingLevel ==
    call.op = "day_trend" =>
        LET flag == IF "breaking_level" \in DOMAIN call.context
                    THEN call.context["breaking_level"]
                    ELSE call.event.is_aggressive \/ call.event.is_sweep
        IN  ~flag => call.signal = None

\* An event that passes the DTE, notional, OTM% and rvol gates and would
\* score at least min_strength, with no breaking_level in the context and
\* neither flag set: no signal.
C16_Witness ==
    /\ call.op = "day_trend"
    /\ "breaking_level" \notin DOMAIN call.context
    /\ ~call.event.is_aggressive
    /\ ~call.event.is_sweep
    /\ LET mode_cfg == get_ticker_config(gcfg, call.event.ticker, "day_trade")
       IN  /\ "min_strength" \in DOMAIN mode_cfg
           /\ DayAdmits(call.event, call.context, mode_cfg)
           /\ score_signal(call.event, call.context, mode_cfg).strength
                >= mode_cfg["min_strength"]
    /\ call.signal = None

\* C18 as stated: ScalpMomentumStrategy.evaluate returns None whenever a
\* hard gate fails: DTE above max_dte, notional below the mode's configured
\* minimum notional, OTM% above max_otm_pct, or rvol below min_rvol.
C18_ScalpHardGates ==
    call.op = "scalp_momentum" =>
        LET mode_cfg == get_ticker_config(gcfg, call.event.ticker, "scalp")
            minimum  == IF "min_notional" \in DOMAIN mode_cfg
                        THEN mode_cfg["min_notional"]
                        ELSE Get(mode_cfg, "min_premium", 0)
            e        == call.event
            fails    ==
                \/ e.expiry - e.event_time > Get(mode_cfg, "max_dte", 0)
                \/ e.notional < minimum
                \/ OtmPct(e) > Get(mode_cfg, "max_otm_pct", 100)
                \/ Get(call.context, "rvol", 0) < Get(mode_cfg, "min_rvol", 0)
        IN  fails => call.signal = None

\* ------------------------------------------------------- context_engine.py

\* ContextEngine.get_ticker_context, with rvol in tenths and the day's high
\* and low in whole units (exact for an underlying of 100).
get_ticker_context(config, event) ==
    LET vwap_relation ==
            IF Upper(event.call_put) = "CALL" THEN "ABOVE" ELSE "BELOW"
        trend_direction ==
            IF Upper(event.call_put) = "CALL" THEN "UP" ELSE "DOWN"
        trend_aligned ==
            \/ (vwap_relation = "ABOVE" /\ trend_direction = "UP")
            \/ (vwap_relation = "BELOW" /\ trend_direction = "DOWN")
        breaking_level ==
            \/ event.is_sweep
            \/ event.is_aggressive
            \/ event.volume > event.open_interest
        rvol_default ==
            Max(Get(Get(config, "market_regime", EmptyDict), "rvol_high", 12),
                10)
        price_info ==
            [underlying_price |-> event.underlying_price,
             otm_pct          |-> OtmPct(event),
             dte              |-> Dte(event),
             rvol             |-> rvol_default,
             last_price       |-> event.underlying_price,
             vwap             |-> NoneOpt,
             day_high         |-> (event.underlying_price * 101) \div 100,
             day_low          |-> (event.underlying_price * 99) \div 100]
    IN  [rvol            |-> rvol_default,
         vwap_relation   |-> vwap_relation,
         trend_direction |-> trend_direction,
         trend_aligned   |-> trend_aligned,
         breaking_level  |-> breaking_level,
         price_info      |-> price_info,
         vwap            |-> NoneOpt,
         above_vwap      |-> vwap_relation = "ABOVE",
         trend_5m_up     |-> trend_direction = "UP",
         trend_15m_up    |-> trend_direction = "UP",
         trend_daily_up  |-> trend_direction = "UP"]

\* ContextEngine.get_market_regime
get_market_regime == [trend |-> "UNKNOWN", volatility |-> "UNKNOWN"]

\* ------------------------------------ the objects the strategies share

\* A dict entry that refers to another object.
Ref(id) == [ref |-> id]

\* The objects process_event hands to every strategy: the event, the ticker
\* context, the price_info dict nested in it, the market regime and the
\* global configuration.
SharedIds ==
    {"event", "context", "context.price_info", "market_regime", "global_cfg"}

\* The frame of an evaluate call at entry: the parameters bound to the
\* shared objects, the value of each object, and no write made yet. "{}" is
\* the empty dict literal of `.get("price_info", {})`.
Arguments(event, context, market_regime, global_cfg) ==
    [bind   |-> [event |-> "event", context |-> "context",
                 market_regime |-> "market_regime",
                 global_cfg |-> "global_cfg"],
     obj    |-> [id \in SharedIds \cup {"{}"} |->
                   CASE id = "event" -> event
                     [] id = "context" ->
                          IF "price_info" \in DOMAIN context
                          THEN [context EXCEPT
                                  !.price_info = Ref("context.price_info")]
                          ELSE context
                     [] id = "context.price_info" ->
                          Get(context, "price_info", EmptyDict)
                     [] id = "market_regime" -> market_regime
                     [] id = "global_cfg" -> global_cfg
                     [] id = "{}" -> EmptyDict],
     writes |-> {}]

\* The context dict as a strategy reads it, the nested price_info followed.
ContextOf(st) ==
    LET c == st.obj["context"]
    IN  IF "price_info" \in DOMAIN c
        THEN [c EXCEPT !.price_info = st.obj[c.price_info.ref]]
        ELSE c

\* A mutant of NewDict: `var = source`, the same object under a new name.
NewDictAliased(st, var, id, source) ==
    [st EXCEPT !.bind = Merge(@, var :> source)]

\* `var = dict(source)`: a new object `id` with the entries of the object
\* `source` (a shallow copy: an entry that refers to an object still does).
NewDict(st, var, id, source) ==
    [st EXCEPT !.bind = Merge(@, var :> id),
               !.obj  = Merge(@, id :> st.obj[source])]

\* `var[key] = value`
SetItem(st, var, key, value) ==
    [st EXCEPT !.obj[st.bind[var]] = Merge(@, key :> value),
               !.writes = @ \cup {st.bind[var]}]

\* `var.update(d)`
Update(st, var, d) ==
    [st EXCEPT !.obj[st.bind[var]] = Merge(@, d),
               !.writes = @ \cup {st.bind[var]}]

\* evaluate returns: its local names go, the objects it wrote stay written.
Return(st) ==
    [bind   |-> Restrict(st.bind,
                    {"event", "context", "market_regime", "global_cfg"}),
     obj    |-> Restrict(st.obj, SharedIds \cup {"{}"}),
     writes |-> st.writes]

\* The dict statements of ScalpMomentumStrategy.evaluate, in order: the copy
\* of the context and its trend_aligned entry once the gates are passed,
\* the copy of price_info and its update once the strength is enough.
ScalpStatements(st, event, global_cfg) ==
    LET context  == ContextOf(st)
        mode_cfg == get_ticker_config(global_cfg, event.ticker, "scalp")
        s1 == NewDict(st, "enriched_context", "enriched_context", "context")
        s2 == SetItem(s1, "enriched_context", "trend_aligned",
                      ScalpTrendAligned(event, context))
        ec == s2.obj[s2.bind["enriched_context"]]
        s3 == NewDict(s2, "price_info", "price_info",
                      IF "price_info" \in DOMAIN ec
                      THEN ec.price_info.ref ELSE "{}")
        s4 == Update(s3, "price_info",
                     [otm_pct          |-> OtmPct(event),
                      rvol             |-> Get(ec, "rvol", NoneOpt),
                      dte              |-> Dte(event),
                      underlying_price |-> event.underlying_price])
    IN  IF ~ScalpAdmits(event, context, mode_cfg) THEN st
        ELSE IF ScalpEvaluate(event, context, global_cfg) = None THEN s2
        ELSE s4

\* The dict statements of DayTrendStrategy.evaluate: the copy of the context
\* and its trend_aligned entry once the gates are passed; price_info is a
\* dict of its own.
DayStatements(st, event, global_cfg) ==
    LET context  == ContextOf(st)
        mode_cfg == get_ticker_config(global_cfg, event.ticker, "day_trade")
        breaking_level == DayBreakingLevel(event, context)
        s1 == NewDict(st, "enriched_context", "enriched_context", "context")
        s2 == SetItem(s1, "enriched_context", "trend_aligned",
                      DayTrendAligned(event, context) /\ breaking_level)
    IN  IF ~DayAdmits(event, context, mode_cfg) \/ ~breaking_level THEN st
        ELSE s2

\* The dict statements of SwingAccumulationStrategy.evaluate other than the
\* accumulator's: the copy of the context and its trend_aligned entry once
\* the gates are passed; price_info is a dict of its own.
SwingStatements(st, event, global_cfg) ==
    LET context  == ContextOf(st)
        mode_cfg == get_ticker_config(global_cfg, event.ticker, "swing")
        s1 == NewDict(st, "enriched_context", "enriched_context", "context")
        s2 == SetItem(s1, "enriched_context", "trend_aligned",
                      SwingTrendAligned(event, context))
    IN  IF ~SwingAdmits(event, mode_cfg) THEN st ELSE s2

\* The shared objects after the named strategy's evaluate.
Statements(name, st, event, global_cfg) ==
    CASE name = "scalp_momentum" ->
           Return(ScalpStatements(st, event, global_cfg))
      [] name = "day_trend" -> Return(DayStatements(st, event, global_cfg))
      [] name = "swing_accumulation" ->
           Return(SwingStatements(st, event, global_cfg))

\* -------------------------------------------------------- signal_engine.py

\* A mutant of Strategies with the swing strategy in front.
StrategiesSwingFirst ==
    << "swing_accumulation", "scalp_momentum", "day_trend" >>

\* SignalEngine.strategies, by Strategy.name
Strategies == << "scalp_momentum", "day_trend", "swing_accumulation" >>

\* strategy.evaluate(event, ticker_context, market_regime, self.cfg) of the
\* named strategy; only the swing strategy has state.
Evaluate(name, totals, event, context, global_cfg) ==
    CASE name = "scalp_momentum" ->
           [chain_totals |-> totals,
            signal |-> ScalpEvaluate(event, context, global_cfg)]
      [] name = "day_trend" ->
           [chain_totals |-> totals,
            signal |-> DayEvaluate(event, context, global_cfg)]
      [] name = "swing_accumulation" ->
           SwingEvaluate(totals, event, context, global_cfg)

\* The loop of process_event over the strategies: acc carries the swing
\* accumulator, the signals collected, the calls made so far and the shared
\* objects, which every strategy receives as the strategies before it left
\* them.
RECURSIVE RunStrategies(_, _)
RunStrategies(strategies, acc) ==
    IF strategies = << >> THEN acc
    ELSE LET event         == acc.shared.obj["event"]
             context       == ContextOf(acc.shared)
             market_regime == acc.shared.obj["market_regime"]
             global_cfg    == acc.shared.obj["global_cfg"]
             r == Evaluate(Head(strategies), acc.chain_totals, event,
                           context, global_cfg)
         IN  RunStrategies(Tail(strategies),
                 [chain_totals |-> r.chain_totals,
                  signals |-> AppendIf(acc.signals, r.signal # None,
                                       r.signal),
                  trace   |-> Append(acc.trace,
                                 [fn |-> "evaluate",
                                  strategy |-> Head(strategies),
                                  event |-> event, context |-> context,
                                  market_regime |-> market_regime,
                                  result |-> r.signal]),
                  shared  |-> Statements(Head(strategies), acc.shared,
                                         event, global_cfg)])

\* SignalEngine.process_event(event, now): the signals returned, the swing
\* accumulator afterwards, the calls made, in order, and the shared objects
\* as the strategies left them.
process_event(totals, event, global_cfg) ==
    LET market_regime  == get_market_regime
        ticker_context == get_ticker_context(global_cfg, event)
    IN  RunStrategies(Strategies,
            [chain_totals |-> totals, signals |-> << >>,
             trace |-> << [fn |-> "get_market_regime"],
                          [fn |-> "get_ticker_context", event |-> event,
                           result |-> ticker_context] >>,
             shared |-> Arguments(event, ticker_context, market_regime,
                                  global_cfg)])

\* Most calls of process_event in one behaviour of EngineSpec.
MaxProcessed == 2

\* Events of the engine: CALL and PUT, expiring today and in 3 days,
\* notional 400 and 50000, and a strong flow (sweep, aggressive, volume 5 x
\* OI) or a weak one (no flag, volume below OI); bought, strike 1% away.
EngineEvents ==
    { FlowEventOf(call_put, "BUY", 101, expiry, notional, strong, strong,
                  IF strong THEN 10000 ELSE 1, 2000) :
        call_put \in {"CALL", "PUT"}, expiry \in {0, 3},
        notional \in {400, 50000}, strong \in BOOLEAN }

\* The day-trade block of the specification's example.
ExampleDayTrade ==
    [min_notional |-> 10000, max_dte |-> 5, max_otm_pct |-> 5,
     min_strength |-> 4]

\* Configurations of the engine: the example; the example with a min_rvol of
\* 2.0, above the context's 1.2; and one with thresholds in all three blocks.
EngineConfigs ==
    { [day_trade |-> ExampleDayTrade],
      [day_trade |-> Merge(ExampleDayTrade, [min_rvol |-> 20])],
      [scalp     |-> [min_premium |-> 10000, min_strength |-> 4],
       day_trade |-> ExampleDayTrade,
       swing     |-> [min_premium |-> 10000, min_dte |-> 1]] }

\* SignalEngine.__init__: the three strategies, the swing accumulator empty.
EngineInit ==
    /\ StreamIdle
    /\ PaperIdle
    /\ gcfg \in EngineConfigs
    /\ call = NoCall
    /\ chain_totals = EmptyDict
    /\ processed = << >>
    /\ scored = << >>

\* One call of SignalEngine.process_event.
ProcessEvent ==
    /\ Len(processed) < MaxProcessed
    /\ \E event \in EngineEvents :
         LET r == process_event(chain_totals, event, gcfg)
         IN  /\ chain_totals' = r.chain_totals
             /\ call' = [op |-> "process_event", event |-> event,
                         signals |-> r.signals, trace |-> r.trace,
                         shared |-> r.shared]
             /\ processed' = Append(processed,
                                 [op |-> "process_event", event |-> event])
    /\ UNCHANGED << gcfg, scored >>
    /\ UNCHANGED streamVars
    /\ UNCHANGED << liveVars, paperVars >>

EngineNext == ProcessEvent

EngineSpec == EngineInit /\ [][EngineNext]_vars

\* The context process_event computed for the latest event.
TickerContext == call.trace[2].result

\* The latest event is a CALL bought that passes the day-trade gates the
\* claim lists (DTE, min_notional, OTM%, breaking_level) and satisfies
\* every scoring predicate, with trend_15m_up true in its context.
DayTradeCase ==
    /\ call.op = "process_event"
    /\ LET e        == call.event
           mode_cfg == get_ticker_config(gcfg, e.ticker, "day_trade")
       IN  /\ e.call_put = "CALL"
           /\ e.side = "BUY"
           /\ e.expiry - e.event_time <= Get(mode_cfg, "max_dte", 10)
           /\ e.notional >= Get(mode_cfg, "min_notional", 0)
           /\ OtmPct(e) <= Get(mode_cfg, "max_otm_pct", 100)
           /\ TickerContext.breaking_level
           /\ e.is_sweep
           /\ e.is_aggressive
           /\ e.volume >= 2 * Max(e.open_interest, 1)
           /\ TickerContext.trend_15m_up

\* The relative-volume gate and the minimum-strength gate of the day-trade
\* mode let a strength of 10 through.
DayTradeOtherGates ==
    LET mode_cfg == get_ticker_config(gcfg, call.event.ticker, "day_trade")
    IN  /\ TickerContext.rvol >= Get(mode_cfg, "min_rvol", 0)
        /\ Get(mode_cfg, "min_strength", 0) <= 10

\* process_event returned exactly one DAY_TRADE signal: BULLISH, strength at
\* least 8 (the clamped 10), with the seven tags.
OneBullishDayTrade ==
    LET days == {i \in DOMAIN call.signals :
                    call.signals[i].kind = "DAY_TRADE"}
    IN  /\ Cardinality(days) = 1
        /\ \A i \in days :
             /\ call.signals[i].direction = "BULLISH"
             /\ call.signals[i].strength >= 8
             /\ call.signals[i].strength = 10
             /\ \A tag \in {"SIZE", "SWEEP", "AGGRESSIVE", "VOL>OI",
                            "TREND_CONFIRMED", "LEVEL_BREAK", "BREAKOUT"} :
                  HasTag(call.signals[i], tag)

\* C17 as stated: a CALL buy event that passes the day-trade gates DTE,
\* min_notional, OTM% and breaking_level and satisfies every scoring
\* predicate, with trend_15m_up, makes process_event return exactly one
\* DAY_TRADE signal, BULLISH, strength at least 8, with the seven tags.
C17_DayTradeSignalFourGates ==
    DayTradeCase => OneBullishDayTrade

\* C17, amended: the same with the remaining gates of the day-trade strategy
\* passed too: the context's relative volume is at least min_rvol and
\* min_strength is at most 10.
C17_DayTradeSignalAllGates ==
    (DayTradeCase /\ DayTradeOtherGates) => OneBullishDayTrade

\* The example of the specification: DTE 3, notional 50000, sweep,
\* aggressive, volume 10000 against open interest 2000, under the example
\* day-trade block; a DAY_TRADE signal is among the signals.
C17_Witness ==
    /\ gcfg = [day_trade |-> ExampleDayTrade]
    /\ DayTradeCase
    /\ DayTradeOtherGates
    /\ call.event.expiry = 3
    /\ call.event.notional = 50000
    /\ \E i \in DOMAIN call.signals : call.signals[i].kind = "DAY_TRADE"

\* SCALP before DAY_TRADE before SWING
KindRank(kind) ==
    CASE kind = "SCALP" -> 1 [] kind = "DAY_TRADE" -> 2 [] kind = "SWING" -> 3

\* C19: process_event computes the market regime once and the ticker
\* context once, then calls the strategies scalp, day-trade, swing in this
\* order with the same event, context and regime, and returns every
\* non-None result: at most three signals, at most one per kind, ordered
\* SCALP, DAY_TRADE, SWING.
C19_OnceThenFixedOrder ==
    call.op = "process_event" =>
        LET t == call.trace
            returned == [i \in 1..3 |-> t[i + 2].result]
            NotNone(s) == s # None
        IN  /\ Len(t) = 5
            /\ t[1] = [fn |-> "get_market_regime"]
            /\ t[2].fn = "get_ticker_context" /\ t[2].event = call.event
            /\ \A i \in 3..5 :
                 /\ t[i].fn = "evaluate"
                 /\ t[i].event = call.event
                 /\ t[i].context = t[2].result
                 /\ t[i].market_regime = get_market_regime
            /\ << t[3].strategy, t[4].strategy, t[5].strategy >>
                 = << "scalp_momentum", "day_trend", "swing_accumulation" >>
            /\ call.signals = SelectSeq(returned, NotNone)
            /\ Len(call.signals) <= 3
            /\ \A i, j \in DOMAIN call.signals :
                 i < j => KindRank(call.signals[i].kind)
                            < KindRank(call.signals[j].kind)

\* An event for which all three strategies return a signal, after an event
\* for which none does.
C19_Witness ==
    /\ call.op = "process_event"
    /\ Len(processed) >= 2
    /\ Len(call.signals) = 3
    /\ << call.signals[1].kind, call.signals[2].kind, call.signals[3].kind >>
         = << "SCALP", "DAY_TRADE", "SWING" >>

\* ------------------------------------------------------- paper_trading.py

Abs(x) == IF x < 0 THEN -x ELSE x

\* kind.upper().startswith(prefix), on the kinds the strategies set
KindStartsWith(kind, prefix) ==
    CASE prefix = "SCALP" -> Upper(kind) = "SCALP"
      [] prefix = "SWING" -> Upper(kind) = "SWING"

\* `"CALL" in signal.kind`, on the kinds the strategies set: none of SCALP,
\* DAY_TRADE and SWING has the substring.
KindContainsCALL(kind) ==
    CASE kind = "SCALP"     -> FALSE
      [] kind = "DAY_TRADE" -> FALSE
      [] kind = "SWING"     -> FALSE

\* PaperTradingEngine._defaults_for_kind -> (tp, sl, hold_seconds)
_defaults_for_kind(kind) ==
    IF KindStartsWith(kind, "SCALP") THEN << 2, -1, 30 * 60 >>
    ELSE IF KindStartsWith(kind, "SWING") THEN << 15, -5, 7 * 24 * 60 * 60 >>
    ELSE << 5, -2, 6 * 60 * 60 >>

\* The PaperPosition of open_position_for_signal; id is the fresh uuid4.
NewPosition(id, signal, underlying_price) ==
    LET d == _defaults_for_kind(signal.kind)
    IN  [id               |-> id,
         ticker           |-> signal.ticker,
         side             |-> IF KindContainsCALL(signal.kind)
                              THEN "LONG_CALL" ELSE "LONG_PUT",
         opened_at        |-> signal.created_at,
         entry_price      |-> underlying_price,
         signal_id        |-> signal.id,
         tp_pct           |-> d[1],
         sl_pct           |-> Abs(d[2]),
         max_hold_seconds |-> d[3],
         closed_at        |-> NoneOpt,
         exit_price       |-> NoneOpt,
         outcome          |-> NoneOpt]

\* A mutant of ExitOutcome that tests the hold time first.
ExitOutcomeTimeoutFirst(pos, now, current_price) ==
    LET raw == ((current_price - pos.entry_price) * 100) \div pos.entry_price
        pct_change == IF pos.side = "LONG_PUT" THEN -raw ELSE raw
    IN  IF now - pos.opened_at >= pos.max_hold_seconds THEN Some("TIMEOUT")
        ELSE IF pct_change >= pos.tp_pct THEN Some("TP")
        ELSE IF pct_change <= -pos.sl_pct THEN Some("SL")
        ELSE pos.outcome

\* pos.outcome after the if/elif chain of update_positions; pct_change in
\* whole percent (exact for the entry price of the model).
ExitOutcome(pos, now, current_price) ==
    LET raw == ((current_price - pos.entry_price) * 100) \div pos.entry_price
        pct_change == IF pos.side = "LONG_PUT" THEN -raw ELSE raw
    IN  IF pct_change >= pos.tp_pct THEN Some("TP")
        ELSE IF pct_change <= -pos.sl_pct THEN Some("SL")
        ELSE IF now - pos.opened_at >= pos.max_hold_seconds
             THEN Some("TIMEOUT")
        ELSE pos.outcome

\* A mutant of ClosePosition that leaves exit_price unset.
ClosePositionWithoutExitPrice(pos, outcome, now, current_price) ==
    [pos EXCEPT !.outcome = outcome, !.closed_at = Some(now)]

\* pos.outcome = ...; pos.closed_at = now; pos.exit_price = current_price
ClosePosition(pos, outcome, now, current_price) ==
    [pos EXCEPT !.outcome = outcome, !.closed_at = Some(now),
                !.exit_price = Some(current_price)]

\* list(self.positions.values()): ids in insertion order, which is the
\* order of the ids of the model.
RECURSIVE InsertionOrder(_)
InsertionOrder(ids) ==
    IF ids = {} THEN << >>
    ELSE LET first == CHOOSE i \in ids : \A j \in ids : i <= j
         IN  << first >> \o InsertionOrder(ids \ {first})

\* The loop of update_positions: acc carries the map and the closed list.
RECURSIVE UpdateLoop(_, _, _, _, _)
UpdateLoop(ids, acc, ticker, now, current_price) ==
    IF ids = << >> THEN acc
    ELSE LET pos     == acc.positions[Head(ids)]
             outcome == ExitOutcome(pos, now, current_price)
             done    == ClosePosition(pos, outcome, now, current_price)
             next    ==
                 IF pos.ticker # ticker \/ pos.closed_at # NoneOpt THEN acc
                 ELSE IF outcome = NoneOpt THEN acc
                 ELSE [positions |-> Restrict(acc.positions,
                                        DOMAIN acc.positions \ {pos.id}),
                       closed    |-> Append(acc.closed, done)]
         IN  UpdateLoop(Tail(ids), next, ticker, now, current_price)

\* PaperTradingEngine.update_positions on the map `held`: the map afterwards
\* and the list returned.
update_positions(held, ticker, now, current_price) ==
    UpdateLoop(InsertionOrder(DOMAIN held),
               [positions |-> held, closed |-> << >>],
               ticker, now, current_price)

\* Most positions opened in one behaviour of PaperSpec.
MaxPositions == 2

PaperTickers == {"SPY", "QQQ"}

\* Kinds with different defaults: SCALP (2%, 1%, 30 min) and DAY_TRADE
\* (5%, 2%, 6 h).
PaperKinds == {"SCALP", "DAY_TRADE"}

\* Prices against an entry of 100: 5% and 2% down, unchanged, 2% up.
PaperPrices == {95, 98, 100, 102}

\* Times, in seconds after the signal: at once, after 30 minutes, after 6 h.
PaperTimes == {0, 30 * 60, 6 * 60 * 60}

\* PaperTradingEngine.__init__
PaperInit ==
    /\ StreamIdle
    /\ EngineIdle
    /\ positions = EmptyDict
    /\ closed = EmptyDict

\* One call of open_position_for_signal, for a signal created at time 0 on
\* an underlying at 100.
OpenPositionForSignal ==
    /\ Cardinality(DOMAIN positions \cup DOMAIN closed) < MaxPositions
    /\ \E kind \in PaperKinds, ticker \in PaperTickers :
         LET id     == Cardinality(DOMAIN positions \cup DOMAIN closed) + 1
             signal == [id |-> id, ticker |-> ticker, kind |-> kind,
                        created_at |-> 0]
             pos    == NewPosition(id, signal, 100)
         IN  positions' = Merge(positions, [k \in {id} |-> pos])
    /\ UNCHANGED closed
    /\ UNCHANGED << streamVars, liveVars, engineVars >>

\* One call of update_positions; the caller keeps the positions returned.
UpdatePositions ==
    /\ \E ticker \in PaperTickers, now \in PaperTimes,
          current_price \in PaperPrices :
         LET r == update_positions(positions, ticker, now, current_price)
         IN  /\ positions' = r.positions
             /\ closed' = Merge(closed,
                    [id \in {r.closed[i].id : i \in DOMAIN r.closed} |->
                        LET i == CHOOSE n \in DOMAIN r.closed :
                                     r.closed[n].id = id
                        IN  r.closed[i]])
    /\ UNCHANGED << streamVars, liveVars, engineVars >>

PaperNext == OpenPositionForSignal \/ UpdatePositions

PaperSpec == PaperInit /\ [][PaperNext]_vars

\* closed_at, exit_price and outcome of a position are all unset.
IsOpen(pos) ==
    /\ pos.closed_at = NoneOpt
    /\ pos.exit_price = NoneOpt
    /\ pos.outcome = NoneOpt

\* closed_at, exit_price and outcome are all set, the outcome to one of the
\* three exits.
IsClosed(pos) ==
    /\ pos.closed_at # NoneOpt
    /\ pos.exit_price # NoneOpt
    /\ pos.outcome \in {Some("TP"), Some("SL"), Some("TIMEOUT")}

\* C21: closed_at, exit_price and outcome of a paper position are set
\* together exactly once: all three stay unset while the position is held,
\* all three are set in a position update_positions returns, the outcome is
\* TP, SL or TIMEOUT, and no later call changes a closed position.
C21_ClosedOnceTogether ==
    /\ [](/\ \A id \in DOMAIN positions :
               IsOpen(positions[id]) \/ IsClosed(positions[id])
          /\ \A id \in DOMAIN closed : IsClosed(closed[id]))
    /\ [][/\ \A id \in DOMAIN closed :
               id \in DOMAIN closed' /\ closed'[id] = closed[id]
          /\ \A id \in DOMAIN positions :
               /\ id \in DOMAIN positions' =>
                    (IsOpen(positions'[id]) \/ positions'[id] = positions[id])
               /\ id \in DOMAIN closed' => IsOpen(positions[id])
         ]_vars

\* Two positions closed by two different calls: the one closed first went
\* through a later update_positions call.
C21_Witness ==
    \E i, j \in DOMAIN closed :
        /\ closed[i].closed_at # closed[j].closed_at
        /\ closed[i].ticker = closed[j].ticker
        /\ IsClosed(closed[i])
        /\ IsClosed(closed[j])

\* The exit an open position must take for a price and a time: take-profit
\* before stop-loss before timeout.
ExpectedExit(pos, now, price) ==
    LET move == IF pos.side = "LONG_PUT" THEN pos.entry_price - price
                ELSE price - pos.entry_price
    IN  IF move * 100 >= pos.tp_pct * pos.entry_price THEN "TP"
        ELSE IF move * 100 <= -pos.sl_pct * pos.entry_price THEN "SL"
        ELSE IF now - pos.opened_at >= pos.max_hold_seconds THEN "TIMEOUT"
        ELSE "open"

\* C30: update_positions(ticker, now, price) examines the open positions of
\* the ticker only and closes each by the first rule that applies of
\* take-profit, stop-loss, timeout; positions of other tickers are
\* unchanged; a closed position leaves the map, which holds open positions
\* only.
C30_ExitPrecedenceAndFrame ==
    /\ [](\A id \in DOMAIN positions : IsOpen(positions[id]))
    /\ [][(DOMAIN positions' \subseteq DOMAIN positions
           /\ positions' # positions) =>
            \E ticker \in PaperTickers, now \in PaperTimes,
               price \in PaperPrices :
              \A id \in DOMAIN positions :
                LET pos  == positions[id]
                    exit == ExpectedExit(pos, now, price)
                IN  IF pos.ticker # ticker \/ exit = "open"
                    THEN /\ id \in DOMAIN positions'
                         /\ positions'[id] = pos
                         /\ id \notin DOMAIN closed'
                    ELSE /\ id \notin DOMAIN positions'
                         /\ id \in DOMAIN closed'
                         /\ closed'[id].outcome = Some(exit)
                         /\ closed'[id].closed_at = Some(now)
                         /\ closed'[id].exit_price = Some(price)
         ]_vars

\* A position closed as TP by a call at which its hold time was over too,
\* while a position of the other ticker is still held.
C30_Witness ==
    \E i \in DOMAIN closed, j \in DOMAIN positions :
        /\ closed[i].outcome = Some("TP")
        /\ closed[i].closed_at[1] - closed[i].opened_at
             >= closed[i].max_hold_seconds
        /\ positions[j].ticker # closed[i].ticker

\* ------------------------------------------------ time horizons of signals

\* The minute horizon of a signal is set and its day horizon is not.
MinuteHorizonOnly(signal) ==
    /\ signal.time_horizon_min # NoneOpt
    /\ signal.time_horizon_max # NoneOpt
    /\ signal.time_horizon_days_min = NoneOpt
    /\ signal.time_horizon_days_max = NoneOpt

\* The day horizon of a signal is set and its minute horizon is not.
DayHorizonOnly(signal) ==
    /\ signal.time_horizon_days_min # NoneOpt
    /\ signal.time_horizon_days_max # NoneOpt
    /\ signal.time_horizon_min = NoneOpt
    /\ signal.time_horizon_max = NoneOpt

\* C22: every signal a strategy returns has exactly one time-horizon pair
\* set, by its kind: minutes and no days for SCALP and DAY_TRADE, days and no
\* minutes for SWING; its created_at is the event's event_time and its
\* flow_events holds exactly that event.
C22_OneHorizonByKind ==
    call.op = "process_event" =>
        \A i \in DOMAIN call.signals :
            LET signal == call.signals[i]
            IN  /\ signal.kind \in {"SCALP", "DAY_TRADE"}
                     => MinuteHorizonOnly(signal)
                /\ signal.kind = "SWING" => DayHorizonOnly(signal)
                /\ signal.kind \in {"SCALP", "DAY_TRADE", "SWING"}
                /\ signal.created_at = call.event.event_time
                /\ signal.flow_events = << call.event >>

\* One event with a signal of each kind: minutes, minutes, days.
C22_Witness ==
    /\ call.op = "process_event"
    /\ Len(call.signals) = 3
    /\ MinuteHorizonOnly(call.signals[1])
    /\ MinuteHorizonOnly(call.signals[2])
    /\ DayHorizonOnly(call.signals[3])
    /\ call.signals[3].kind = "SWING"

\* The day-trade settings of the latest call give no time-horizon bound.
NoDayTradeHorizonConfigured ==
    LET mode_cfg == get_ticker_config(gcfg, call.event.ticker, "day_trade")
    IN  /\ "time_horizon_min" \notin DOMAIN mode_cfg
        /\ "time_horizon_max" \notin DOMAIN mode_cfg

\* C24: when the day-trade configuration gives no time-horizon bounds, a
\* DAY_TRADE signal carries time_horizon_min = 30 and time_horizon_max = 360.
C24_DayTradeDefaultHorizon ==
    (/\ call.op = "day_trend"
     /\ call.signal # None
     /\ NoDayTradeHorizonConfigured)
        => /\ call.signal.time_horizon_min = Some(30)
           /\ call.signal.time_horizon_max = Some(360)

\* ------------------------------- one strategy call on an engine's context

\* Events with every reading of the order side: side a trade side, empty,
\* or the contract type (as FlowClient._normalize_event sets it), action BUY
\* or SELL; strikes 10% below, 1% above and 10% above the underlying;
\* expiring today, notional 50000, sweep, aggressive, volume 5 x OI.
DirectEvents ==
    { [FlowEventOf(call_put, side, strike, 0, 50000, TRUE, TRUE, 10000, 2000)
          EXCEPT !.action = action] :
        call_put \in {"CALL", "PUT"}, side \in {"BUY", "SELL", "", "CALL"},
        action \in {"BUY", "SELL"}, strike \in {90, 101, 110} }

\* Configurations: no block at all, and an OTM% limit of 5 for the scalp and
\* day-trade modes.
DirectConfigs ==
    { EmptyDict,
      [scalp     |-> [max_otm_pct |-> 5],
       day_trade |-> [max_otm_pct |-> 5]] }

StrategyNames == {Strategies[i] : i \in DOMAIN Strategies}

DirectInit ==
    /\ StreamIdle
    /\ PaperIdle
    /\ gcfg \in DirectConfigs
    /\ call = NoCall
    /\ chain_totals = EmptyDict
    /\ processed = << >>
    /\ scored = << >>

\* One call of one strategy's evaluate, with the context the engine's
\* ContextEngine computes for the event. A behaviour makes one call.
EvaluateDirect ==
    /\ call = NoCall
    /\ \E name \in StrategyNames, event \in DirectEvents :
         LET context == get_ticker_context(gcfg, event)
             r == Evaluate(name, chain_totals, event, context, gcfg)
         IN  /\ call' = [op |-> name, event |-> event, context |-> context,
                         signal |-> r.signal]
             /\ chain_totals' = r.chain_totals
    /\ UNCHANGED << gcfg, processed, scored >>
    /\ UNCHANGED streamVars
    /\ UNCHANGED << liveVars, paperVars >>

DirectNext == EvaluateDirect

DirectSpec == DirectInit /\ [][DirectNext]_vars

\* C23: in all three strategies the direction of a signal is BULLISH for a
\* CALL whose action is not SELL, BEARISH for a PUT whose action is not
\* SELL, and the opposite when the event's action is SELL.
C23_SellActionInverts ==
    (call.op \in StrategyNames /\ call.signal # None) =>
        LET is_call == CallPut(call.event) = "CALL"
            sold    == Upper(call.event.action) = "SELL"
        IN  call.signal.direction =
                IF is_call = ~sold THEN "BULLISH" ELSE "BEARISH"

\* The strike of an event is in the money: below the underlying for a CALL,
\* above it for a PUT.
InTheMoney(event) ==
    IF CallPut(event) = "CALL" THEN event.strike < event.underlying_price
    ELSE event.strike > event.underlying_price

\* The latest call, of the scalp or the day-trade strategy, passes every
\* gate other than OTM% <= max_otm_pct, and its mode has no min_strength.
OtherGatesPass ==
    LET mode     == IF call.op = "scalp_momentum" THEN "scalp"
                    ELSE "day_trade"
        mode_cfg == get_ticker_config(gcfg, call.event.ticker, mode)
        open     == Restrict(mode_cfg, DOMAIN mode_cfg \ {"max_otm_pct"})
    IN  /\ "min_strength" \notin DOMAIN mode_cfg
        /\ IF call.op = "scalp_momentum"
           THEN ScalpAdmits(call.event, call.context, open)
           ELSE /\ DayAdmits(call.event, call.context, open)
                /\ DayBreakingLevel(call.event, call.context)

\* C25: the OTM% computed for an event is signed by call/put, positive for
\* an out-of-the-money strike and negative for an in-the-money one, so the
\* OTM% <= max gate of the scalp and day-trade strategies does not reject an
\* in-the-money strike for being far from the underlying.
C25_OtmPctSignedByCallPut ==
    call.op \in StrategyNames =>
        /\ IF InTheMoney(call.event)
           THEN call.context.price_info.otm_pct < 0
           ELSE call.context.price_info.otm_pct >= 0
        /\ (/\ call.op \in {"scalp_momentum", "day_trend"}
            /\ InTheMoney(call.event)
            /\ OtherGatesPass) => call.signal # None

\* ------------------------------------------- the swing accumulator's life

\* An event is inside the DTE window of the swing settings and its notional
\* is at least their min_premium.
PassesSwingGates(event, global_cfg) ==
    LET mode_cfg == get_ticker_config(global_cfg, event.ticker, "swing")
    IN  /\ Dte(event) >= Get(mode_cfg, "min_dte", 0)
        /\ Dte(event) <= Get(mode_cfg, "max_dte", 1000000)
        /\ event.notional >= Get(mode_cfg, "min_premium", 0)

\* C28: SwingAccumulationStrategy.evaluate adds the event's notional to the
\* total of the event's chain exactly when the event passes the DTE and
\* minimum-notional gates, whether or not a signal is returned (min_strength
\* may still reject it); an event that fails a gate leaves the accumulator
\* unchanged.
C28_AccumulatesExactlyBehindGates ==
    [][processed' # processed =>
        LET event == call'.event
            key   == SwingKey(event)
        IN  IF PassesSwingGates(event, gcfg)
            THEN /\ DOMAIN chain_totals' = DOMAIN chain_totals \cup {key}
                 /\ chain_totals'[key]
                      = Get(chain_totals, key, 0) + event.notional
                 /\ \A k \in DOMAIN chain_totals :
                      k # key => chain_totals'[k] = chain_totals[k]
            ELSE /\ chain_totals' = chain_totals
                 /\ call'.signal = None
      ]_vars

\* An event that passed the gates and was rejected by min_strength, its
\* notional in the accumulator; before it an event that failed a gate.
C28_Witness ==
    /\ Len(processed) >= 2
    /\ call.op = "swing"
    /\ call.signal = None
    /\ PassesSwingGates(call.event, gcfg)
    /\ SwingKey(call.event) \in DOMAIN chain_totals
    /\ ~PassesSwingGates(processed[1].event, gcfg)

\* C29: with non-negative notionals and a fixed configuration, the total of
\* a chain never decreases and no chain leaves the accumulator; once a swing
\* signal on a chain is tagged PERSISTENT_BUYER, every later swing signal on
\* the same chain is tagged PERSISTENT_BUYER too.
C29_TotalsGrowAndFlagPersists ==
    /\ [](\A i, j \in DOMAIN processed :
            (/\ i < j
             /\ SameChain(processed[i].event, processed[j].event)
             /\ processed[i].signal # None
             /\ HasTag(processed[i].signal, "PERSISTENT_BUYER")
             /\ processed[j].signal # None)
                => HasTag(processed[j].signal, "PERSISTENT_BUYER"))
    /\ [][/\ gcfg' = gcfg
          /\ \A k \in DOMAIN chain_totals :
               /\ k \in DOMAIN chain_totals'
               /\ chain_totals'[k] >= chain_totals[k]
         ]_vars

\* A chain whose first signal is not tagged, whose second is, and whose third
\* is again, under a minimum above 0.
C29_Witness ==
    /\ Len(processed) = 3
    /\ \A i \in 1..3 : processed[i].signal # None
    /\ SameChain(processed[1].event, processed[2].event)
    /\ SameChain(processed[2].event, processed[3].event)
    /\ ~HasTag(processed[1].signal, "PERSISTENT_BUYER")
    /\ HasTag(processed[2].signal, "PERSISTENT_BUYER")
    /\ HasTag(processed[3].signal, "PERSISTENT_BUYER")
    /\ processed[3].event.notional < processed[2].event.notional

\* ------------------------------------------- the seen-set and failed records

\* The poll is about to process a record that has a last trade, an option
\* ticker and a trade timestamp, hence an identity key.
AtKeyedRecord ==
    /\ pc = "contracts"
    /\ results # << >>
    /\ Head(results).has_last_trade
    /\ Head(results).option_ticker # ""
    /\ Head(results).sip_timestamp # 0

\* C27: the identity key of a record enters the seen-set before the record
\* is normalized: when the normalization raises, the record is skipped and
\* its key is in the seen-set; the seen-set is carried from cycle to cycle
\* and never loses a key; and a record whose key is in the seen-set, in this
\* or any later cycle, is skipped as a duplicate without an event.
C27_RaisedKeyStaysSeen ==
    /\ [][ ( /\ AtKeyedRecord
             /\ log'[idx].errors = log[idx].errors + 1 )
           => /\ ContractId(universe[idx], Head(results)) \notin seen_ids
              /\ ContractId(universe[idx], Head(results)) \in seen_ids'
              /\ emitted' = emitted
              /\ results' = Tail(results)
         ]_vars
    /\ [][seen_ids \subseteq seen_ids']_vars
    /\ [][ ( /\ AtKeyedRecord
             /\ ContractId(universe[idx], Head(results)) \in seen_ids )
           => /\ emitted' = emitted
              /\ seen_ids' = seen_ids
              /\ log'[idx].errors = log[idx].errors
              /\ log'[idx].yielded = log[idx].yielded
         ]_vars

\* In the second cycle the poll meets a well-formed record whose key an
\* earlier observation, which raised, left in the seen-set; nothing has been
\* emitted for it.
C27_Witness ==
    /\ Polling
    /\ cycle >= 2
    /\ abort = "none"
    /\ AtKeyedRecord
    /\ WellFormed(Head(results))
    /\ log[idx].errors = 0
    /\ ContractId(universe[idx], Head(results)) \in seen_ids
    /\ ContractId(universe[idx], Head(results)) \in first_good
    /\ EmittedFor(emitted, ContractId(universe[idx], Head(results))) = 0

\* ------------------------------------------------- what evaluate may touch

\* C26: no strategy's evaluate writes to the event, the shared context, the
\* price_info nested in it, the market regime or the global configuration,
\* which all keep their value through process_event; the swing accumulator
\* is the only state that changes; so every strategy returns what a call of
\* it alone returns for the event, the engine's context and the accumulator
\* as it was.
C26_StrategiesShareNothingButAccumulator ==
    [][processed' # processed =>
        LET event   == call'.event
            context == get_ticker_context(gcfg, event)
            entry   == Arguments(event, context, get_market_regime, gcfg)
            alone   == SwingEvaluate(chain_totals, event, context, gcfg)
            t       == call'.trace
        IN  /\ call'.shared.writes \cap SharedIds = {}
            /\ \A id \in SharedIds : call'.shared.obj[id] = entry.obj[id]
            /\ gcfg' = gcfg
            /\ t[3].result = ScalpEvaluate(event, context, gcfg)
            /\ t[4].result = DayEvaluate(event, context, gcfg)
            /\ t[5].result = alone.signal
            /\ chain_totals' = alone.chain_totals
      ]_vars

\* All three strategies returned a signal for the second event of a chain:
\* each wrote to its copy of the context, the scalp strategy to its copy of
\* price_info, and the swing accumulator holds both notionals.
C26_Witness ==
    /\ call.op = "process_event"
    /\ Len(processed) = 2
    /\ Len(call.signals) = 3
    /\ call.shared.writes = {"enriched_context", "price_info"}
    /\ \E k \in DOMAIN chain_totals :
         chain_totals[k] = 2 * call.event.notional

====
